---- MODULE Spec2Model ----
(***************************************************************************)
(* Run-aware text editing core of hwpx-mcp-server.                         *)
(*                                                                         *)
(* A string is a sequence of one-character strings.  A paragraph is a      *)
(* record of its run texts and anchored tables, a section a sequence of    *)
(* paragraphs, a document a sequence of sections.                          *)
(***************************************************************************)
EXTENDS Integers, Sequences, FiniteSets, TLC

VARIABLES
    file,    \* the document persisted on disk
    doc,     \* the in-memory tree of the latest request (open_doc result, mutated)
    prev,    \* the document the latest request opened
    call,    \* the latest tool call: operation, arguments, result or error
    runs,    \* run list handed to _replace_in_runs (run-level specification)
    rcall,   \* the latest _replace_in_runs call: arguments, phase counts
    dist,    \* the latest _distribute_lengths call: arguments and shares
    disk     \* save_doc in progress: the .bak file and the position in save_doc

vars == <<file, doc, prev, call, runs, rcall, dist, disk>>

\* no save is followed step by step
NoDisk == [save |-> "none"]

---------------------------------------------------------------------------
\* Bounds of the model.

MaxTotal == 5
MaxWeights == 3
MaxWeight == 3
MaxText == 4
MaxRuns == 3
MaxParas == 3
MaxBatch == 2
MaxCoord == 2
MaxHaystack == 3

---------------------------------------------------------------------------
\* Python built-ins used by the code.

Min(a, b) == IF a <= b THEN a ELSE b

Max(a, b) == IF a >= b THEN a ELSE b

SetMin(S) == CHOOSE x \in S : \A y \in S : x <= y

RECURSIVE SumSeq(_)
SumSeq(s) == IF s = <<>> THEN 0 ELSE Head(s) + SumSeq(Tail(s))

\* "".join(texts)
RECURSIVE Join(_)
Join(texts) == IF texts = <<>> THEN <<>> ELSE Head(texts) \o Join(Tail(texts))

\* s[i:j] with Python's clamping, i and j 0-based
Slice(s, i, j) ==
    LET lo == Min(Max(i, 0), Len(s))
        hi == Min(Max(j, 0), Len(s))
    IN  IF hi <= lo THEN <<>> ELSE SubSeq(s, lo + 1, hi)

\* s[i:i+len(f)] == f, i 0-based
StartsAt(s, f, i) ==
    /\ i >= 0
    /\ i + Len(f) <= Len(s)
    /\ SubSeq(s, i + 1, i + Len(f)) = f

\* s.find(f, cursor)
StrFind(s, f, cursor) ==
    LET hits == {i \in cursor..(Len(s) - Len(f)) : StartsAt(s, f, i)}
    IN  IF hits = {} THEN -1 ELSE SetMin(hits)

\* f in s
Contains(s, f) == StrFind(s, f, 0) >= 0

\* s.count(f): non-overlapping occurrences, scanning left to right
RECURSIVE StrCountFrom(_, _, _)
StrCountFrom(s, f, cursor) ==
    LET pos == StrFind(s, f, cursor)
    IN  IF pos < 0 THEN 0 ELSE 1 + StrCountFrom(s, f, pos + Len(f))

StrCount(s, f) == IF f = <<>> THEN Len(s) + 1 ELSE StrCountFrom(s, f, 0)

\* s.replace(f, r): every non-overlapping occurrence, scanning left to right
RECURSIVE StrReplaceFrom(_, _, _, _)
StrReplaceFrom(s, f, r, cursor) ==
    LET pos == StrFind(s, f, cursor)
    IN  IF pos < 0
        THEN Slice(s, cursor, Len(s))
        ELSE Slice(s, cursor, pos) \o r \o StrReplaceFrom(s, f, r, pos + Len(f))

RECURSIVE Interleave(_, _)
Interleave(s, r) ==
    IF s = <<>> THEN r ELSE r \o <<Head(s)>> \o Interleave(Tail(s), r)

StrReplace(s, f, r) ==
    IF f = <<>> THEN Interleave(s, r) ELSE StrReplaceFrom(s, f, r, 0)

\* the value of e, computed once, handed to F
Bind(e, F(_)) == CHOOSE y \in {F(x) : x \in {e}} : TRUE

\* every sequence over S of length at most n
RECURSIVE SeqsUpTo(_, _)
SeqsUpTo(S, n) ==
    IF n = 0 THEN {<<>>}
    ELSE LET shorter == SeqsUpTo(S, n - 1)
         IN  shorter \cup {Append(s, x) : s \in {t \in shorter : Len(t) = n - 1}, x \in S}

---------------------------------------------------------------------------
\* Span arithmetic: _distribute_lengths.

\* Mutant of the sort of the residuals: ascending index, whatever the residual.
RECURSIVE SortResidualsByIndex(_, _)
SortResidualsByIndex(residual, todo) ==
    IF todo = {} THEN <<>>
    ELSE LET first == CHOOSE i \in todo : \A j \in todo : i <= j
         IN  <<first>> \o SortResidualsByIndex(residual, todo \ {first})

\* residuals.sort(key=lambda item: (-item[0], item[1])): the indices of the
\* entries, largest residual first, ties by ascending index
RECURSIVE SortResiduals(_, _)
SortResiduals(residual, todo) ==
    IF todo = {} THEN <<>>
    ELSE LET first == CHOOSE i \in todo : \A j \in todo :
                          \/ residual[i] > residual[j]
                          \/ (residual[i] = residual[j] /\ i <= j)
         IN  <<first>> \o SortResiduals(residual, todo \ {first})

\* while remainder > 0 and residuals: shares[target] += 1 ...
RECURSIVE LeftoverLoop(_, _, _, _)
LeftoverLoop(shares, remainder, cursor, order) ==
    IF remainder > 0 /\ order # <<>>
    THEN LeftoverLoop([shares EXCEPT ![order[cursor + 1]] = @ + 1],
                      remainder - 1, (cursor + 1) % Len(order), order)
    ELSE [shares |-> shares, remainder |-> remainder]

\* Mutant of _distribute_lengths: the floors alone, the leftover never handed out.
distribute_lengths_floors(total, weights) ==
    IF weights = <<>> THEN <<>>
    ELSE IF total <= 0 \/ SumSeq(weights) <= 0 THEN [i \in 1..Len(weights) |-> 0]
    ELSE [i \in 1..Len(weights) |-> (total * weights[i]) \div SumSeq(weights)]

\* Mutant of _distribute_lengths: equal shares, the first entries taking the
\* units left over, whatever the weights.
distribute_lengths_even(total, weights) ==
    IF weights = <<>> THEN <<>>
    ELSE IF total <= 0 THEN [i \in 1..Len(weights) |-> 0]
    ELSE LET n == Len(weights)
             base == total \div n
             remainder == total - (base * n)
         IN  [i \in 1..n |-> IF i <= remainder THEN base + 1 ELSE base]

distribute_lengths(total, weights) ==
    IF weights = <<>> THEN <<>>
    ELSE IF total <= 0 THEN [i \in 1..Len(weights) |-> 0]
    ELSE
        LET n == Len(weights)
            weight_sum == SumSeq(weights)
        IN  IF weight_sum <= 0
            THEN LET base == total \div n
                     remainder == total - (base * n)
                 IN  [i \in 1..n |-> IF i <= remainder THEN base + 1 ELSE base]
            ELSE LET floors == [i \in 1..n |-> (total * weights[i]) \div weight_sum]
                     residual == [i \in 1..n |-> (total * weights[i]) % weight_sum]
                     order == SortResiduals(residual, 1..n)
                     looped == LeftoverLoop(floors, total - SumSeq(floors), 0, order)
                 IN  IF looped.remainder > 0
                     THEN [looped.shares EXCEPT ![n] = @ + looped.remainder]
                     ELSE looped.shares

---------------------------------------------------------------------------
\* Specification of the span arithmetic alone: the arguments are drawn from
\* bounded sets and the function is applied to them.

NoDist == [total |-> 0, weights |-> <<>>, shares |-> <<>>, done |-> FALSE]

InitDist ==
    /\ file = <<>> /\ doc = <<>> /\ prev = <<>> /\ call = [op |-> "none"]
    /\ runs = <<>> /\ rcall = [op |-> "none"]
    /\ disk = NoDisk
    /\ \E total \in -1..MaxTotal, weights \in SeqsUpTo(0..MaxWeight, MaxWeights) :
          dist = [total |-> total, weights |-> weights, shares |-> <<>>, done |-> FALSE]

Distribute ==
    /\ ~dist.done
    /\ dist' = [dist EXCEPT !.shares = distribute_lengths(dist.total, dist.weights),
                            !.done = TRUE]
    /\ UNCHANGED <<file, doc, prev, call, runs, rcall, disk>>

NextDist == Distribute

SpecDist == InitDist /\ [][NextDist]_vars

\* C5: for every total >= 0 and every non-empty list of non-negative weights,
\* distribute(total, weights) has the length of weights, non-negative entries,
\* and entries that sum exactly to total.
SpanConservation ==
    (dist.done /\ dist.total >= 0 /\ dist.weights # <<>>) =>
        /\ Len(dist.shares) = Len(dist.weights)
        /\ \A i \in 1..Len(dist.shares) : dist.shares[i] >= 0
        /\ SumSeq(dist.shares) = dist.total

\* C5 witness: a call with positive weights of different sizes whose floors
\* leave a leftover to hand out.
SpanConservationWitness ==
    /\ dist.done
    /\ dist.total = 5
    /\ dist.weights = <<1, 0, 2>>
    /\ dist.shares = <<2, 0, 3>>

---------------------------------------------------------------------------
\* Cross-run replace engine: _replace_within_runs, _replace_across_runs,
\* _replace_in_runs.  A run list is a sequence of run texts.

\* Phase 1.  run.replace_text(find, replace), or the fallback
\* run.text = run_text.replace(find, replace), on every run that holds find.
replace_within_runs(rs, find_text, replace_text) ==
    LET hit(i) == rs[i] # <<>> /\ Contains(rs[i], find_text)
    IN  [runs  |-> [i \in 1..Len(rs) |->
                      IF hit(i) THEN StrReplace(rs[i], find_text, replace_text) ELSE rs[i]],
         count |-> SumSeq([i \in 1..Len(rs) |->
                      IF hit(i) THEN StrCount(rs[i], find_text) ELSE 0])]

\* Mutant of the write-back loop: the cursor is never advanced.
RECURSIVE WriteBackStuck(_, _, _, _)
WriteBackStuck(rs, sizes, new_merged, cursor) ==
    IF rs = <<>> \/ sizes = <<>> THEN rs
    ELSE <<Slice(new_merged, cursor, cursor + Head(sizes))>>
         \o WriteBackStuck(Tail(rs), Tail(sizes), new_merged, cursor)

\* cursor = 0; for run, size in zip(runs, redistributed): run.text = new_merged[cursor:cursor+size]
RECURSIVE WriteBack(_, _, _, _)
WriteBack(rs, sizes, new_merged, cursor) ==
    IF rs = <<>> \/ sizes = <<>> THEN rs
    ELSE <<Slice(new_merged, cursor, cursor + Head(sizes))>>
         \o WriteBack(Tail(rs), Tail(sizes), new_merged, cursor + Head(sizes))

\* Mutant of _replace_across_runs: the new merged string is cut into equal
\* shares, whatever the runs held.
replace_across_runs_even(rs, find_text, replace_text) ==
    Bind(Join(rs), LAMBDA merged :
        IF rs = <<>> \/ find_text = <<>> \/ ~Contains(merged, find_text)
        THEN [runs |-> rs, count |-> 0, rewrote |-> FALSE, new_merged |-> merged]
        ELSE Bind(StrReplace(merged, find_text, replace_text), LAMBDA new_merged :
             Bind(distribute_lengths(Len(new_merged), [i \in 1..Len(rs) |-> 1]),
                  LAMBDA redistributed :
                [runs |-> WriteBack(rs, redistributed, new_merged, 0),
                 count |-> StrCount(merged, find_text),
                 rewrote |-> TRUE,
                 new_merged |-> new_merged])))

\* Phase 2.
replace_across_runs(rs, find_text, replace_text) ==
    Bind(Join(rs), LAMBDA merged :
        IF rs = <<>> \/ find_text = <<>> \/ ~Contains(merged, find_text)
        THEN [runs |-> rs, count |-> 0, rewrote |-> FALSE, new_merged |-> merged]
        ELSE Bind(StrReplace(merged, find_text, replace_text), LAMBDA new_merged :
             Bind(distribute_lengths(Len(new_merged), [i \in 1..Len(rs) |-> Len(rs[i])]),
                  LAMBDA redistributed :
                [runs |-> WriteBack(rs, redistributed, new_merged, 0),
                 count |-> StrCount(merged, find_text),
                 rewrote |-> TRUE,
                 new_merged |-> new_merged])))

\* Mutant of _replace_in_runs: the within-run phase alone.
replace_in_runs_within_only(rs, find_text, replace_text) ==
    LET simple == replace_within_runs(rs, find_text, replace_text)
    IN  [runs |-> simple.runs, count |-> simple.count, within |-> simple.count,
         across |-> 0, rewrote |-> FALSE, new_merged |-> Join(simple.runs)]

replace_in_runs(rs, find_text, replace_text) ==
    IF rs = <<>>
    THEN [runs |-> rs, count |-> 0, within |-> 0, across |-> 0,
          rewrote |-> FALSE, new_merged |-> <<>>]
    ELSE Bind(replace_within_runs(rs, find_text, replace_text), LAMBDA simple :
         Bind(Join(simple.runs), LAMBDA merged_after_simple :
         Bind(IF Contains(merged_after_simple, find_text)
              THEN replace_across_runs(simple.runs, find_text, replace_text)
              ELSE [runs |-> simple.runs, count |-> 0, rewrote |-> FALSE,
                    new_merged |-> merged_after_simple],
              LAMBDA across :
            [runs |-> across.runs, count |-> simple.count + across.count,
             within |-> simple.count, across |-> across.count,
             rewrote |-> across.rewrote, new_merged |-> across.new_merged])))

---------------------------------------------------------------------------
\* Specification of the replace engine on one run list: the text, its
\* fragmentation into runs and the find / replace strings are drawn from
\* bounded sets and _replace_in_runs is applied once.

Alphabet == {"a", "b"}

Texts == SeqsUpTo(Alphabet, MaxText)

Finds == {<<"a">>, <<"a", "a">>, <<"a", "b">>}

Replaces == {<<>>, <<"a">>, <<"b">>, <<"c">>, <<"a", "a">>, <<"a", "b">>,
             <<"b", "a">>, <<"c", "c">>}

\* the run list that cuts text t at the (non-decreasing) offsets cuts
Fragment(t, cuts) ==
    [i \in 1..(Len(cuts) + 1) |->
        Slice(t, IF i = 1 THEN 0 ELSE cuts[i - 1],
                 IF i = Len(cuts) + 1 THEN Len(t) ELSE cuts[i])]

Fragmentations(t) ==
    {Fragment(t, cuts) : cuts \in
        {c \in SeqsUpTo(0..Len(t), MaxRuns - 1) :
            \A i \in 1..(Len(c) - 1) : c[i] <= c[i + 1]}}

NoRunCall == [op |-> "none"]

InitRuns ==
    /\ file = <<>> /\ doc = <<>> /\ prev = <<>> /\ call = [op |-> "none"]
    /\ dist = NoDist
    /\ disk = NoDisk
    /\ \E t \in Texts : runs \in Fragmentations(t)
    /\ rcall = NoRunCall

ReplaceInRuns ==
    /\ rcall.op = "none"
    /\ \E find_text \in Finds, replace_text \in Replaces :
          \E r \in {replace_in_runs(runs, find_text, replace_text)} :
              /\ runs' = r.runs
              /\ rcall' = [op |-> "replace", find |-> find_text, replace |-> replace_text,
                           before |-> runs, count |-> r.count, within |-> r.within,
                           across |-> r.across, rewrote |-> r.rewrote,
                           new_merged |-> r.new_merged]
    /\ UNCHANGED <<file, doc, prev, call, dist, disk>>

NextRuns == ReplaceInRuns

SpecRuns == InitRuns /\ [][NextRuns]_vars

\* C1 (as claimed): for every fragmentation of the text into runs, the logical
\* text after replaceInRuns is the original logical text with every leftmost
\* non-overlapping occurrence of find replaced, whatever the run boundaries.
ReplaceIndependentOfRuns ==
    rcall.op = "replace" =>
        Join(runs) = StrReplace(Join(rcall.before), rcall.find, rcall.replace)

\* offset of run k (1-based) in the logical text
RunOffset(rs, k) == SumSeq([i \in 1..(k - 1) |-> Len(rs[i])])

\* every occurrence of f in the logical text of rs lies inside one run
NoStraddle(rs, f) ==
    \A i \in 0..Len(Join(rs)) :
        StartsAt(Join(rs), f, i) =>
            \E k \in 1..Len(rs) :
                /\ RunOffset(rs, k) <= i
                /\ i + Len(f) <= RunOffset(rs, k) + Len(rs[k])

\* C2 (as claimed): the returned count is the within-run count plus the
\* cross-run count, and when every occurrence lies inside one run the
\* cross-run phase replaces nothing, so each occurrence is counted once.
OccurrenceCountedOnce ==
    rcall.op = "replace" =>
        /\ rcall.count = rcall.within + rcall.across
        /\ NoStraddle(rcall.before, rcall.find) =>
              /\ rcall.across = 0
              /\ rcall.count = SumSeq([i \in 1..Len(rcall.before) |->
                                         StrCount(rcall.before[i], rcall.find)])

\* C4: when the cross-run phase rewrites the run list, the slices written
\* back, concatenated in run order, are exactly the replaced merged string,
\* and the run list keeps its length.
RunTextInvariant ==
    (rcall.op = "replace" /\ rcall.rewrote) =>
        /\ Join(runs) = rcall.new_merged
        /\ Len(runs) = Len(rcall.before)

\* C4 witness: a match straddling two runs is replaced by a shorter string,
\* so the merged text shrinks and is cut again by the weights.
RunTextInvariantWitness ==
    /\ rcall.op = "replace"
    /\ rcall.rewrote
    /\ rcall.within = 0
    /\ rcall.before = << <<"a">>, <<"b", "a">> >>
    /\ rcall.find = <<"a", "b">>
    /\ rcall.replace = <<"c">>
    /\ runs = << <<"c">>, <<"a">> >>

---------------------------------------------------------------------------
\* Document tree.  Optional values are None or Some(x).

None == <<>>

Some(x) == <<x>>

\* a paragraph as section.add_paragraph(text, style_id_ref=..., pageBreak=...)
\* builds it: one run holding the text, no table
NewParagraph(text, style_id, page_break) ==
    [runs |-> <<text>>, tables |-> <<>>, style |-> style_id, pageBreak |-> page_break]

\* doc.paragraphs: the flattened view across the sections
Paragraphs(d) == Join(d)

\* paragraph.text: the concatenation of the run texts
ParaText(p) == Join(p.runs)

\* first flattened index (0-based) of section s
SectionOffset(d, s) == SumSeq([k \in 1..(s - 1) |-> Len(d[k])])

\* target.section, for the paragraph at flattened index idx (0-based)
SectionOf(d, idx) ==
    CHOOSE s \in 1..Len(d) :
        SectionOffset(d, s) <= idx /\ idx < SectionOffset(d, s) + Len(d[s])

\* list(section_element).index(target.element)
PositionInSection(d, idx) == idx - SectionOffset(d, SectionOf(d, idx))

\* section_element.remove(child), child at 0-based position pos
RemoveAt(seq, pos) == SubSeq(seq, 1, pos) \o SubSeq(seq, pos + 2, Len(seq))

\* section_element.insert(pos, child)
InsertAt(seq, pos, x) == SubSeq(seq, 1, pos) \o <<x>> \o SubSeq(seq, pos + 1, Len(seq))

\* doc.add_paragraph(...): the library appends to the last section
DocAddParagraph(d, p) == [d EXCEPT ![Len(d)] = Append(@, p)]

\* str.strip() over the model's characters, of which " " is the whitespace
RECURSIVE LStrip(_)
LStrip(s) == IF s # <<>> /\ Head(s) = " " THEN LStrip(Tail(s)) ELSE s

RECURSIVE RStrip(_)
RStrip(s) ==
    IF s # <<>> /\ s[Len(s)] = " " THEN RStrip(SubSeq(s, 1, Len(s) - 1)) ELSE s

Strip(s) == RStrip(LStrip(s))

resolve_style(style) ==
    IF style = None THEN None
    ELSE IF Strip(style[1]) = <<>> THEN None ELSE Some(Strip(style[1]))

Ok(d, ret) == [doc |-> d, ret |-> ret, err |-> "none"]

Raise(d, kind) == [doc |-> d, ret |-> None, err |-> kind]

---------------------------------------------------------------------------
\* Paragraph operations of core/content.py.

add_heading_to_doc(d, text, level) ==
    LET safe_level == Min(6, Max(1, level))
        stripped == Strip(text)
        heading_text == IF stripped # <<>> /\ Head(stripped) = "#"
                        THEN stripped
                        ELSE [i \in 1..safe_level |-> "#"] \o <<" ">> \o stripped
        d1 == DocAddParagraph(d, NewParagraph(heading_text, None, FALSE))
    IN  Ok(d1, Len(Paragraphs(d1)) - 1)

add_paragraph_to_doc(d, text, style) ==
    LET d1 == DocAddParagraph(d, NewParagraph(text, resolve_style(style), FALSE))
    IN  Ok(d1, Len(Paragraphs(d1)) - 1)

\* Mutant of insert_paragraph_to_doc: the new paragraph is left where
\* section.add_paragraph put it, at the end of the target's section.
insert_paragraph_appended(d, paragraph_index, text, style) ==
    LET total == Len(Paragraphs(d))
    IN  IF paragraph_index < 0 \/ paragraph_index > total
        THEN Raise(d, "ValueError")
        ELSE IF paragraph_index = total
        THEN add_paragraph_to_doc(d, text, style)
        ELSE Ok([d EXCEPT ![SectionOf(d, paragraph_index)] =
                    Append(@, NewParagraph(text, resolve_style(style), FALSE))],
                paragraph_index)

insert_paragraph_to_doc(d, paragraph_index, text, style) ==
    LET total == Len(Paragraphs(d))
    IN  IF paragraph_index < 0 \/ paragraph_index > total
        THEN Raise(d, "ValueError")
        ELSE IF paragraph_index = total
        THEN add_paragraph_to_doc(d, text, style)
        ELSE
            LET s == SectionOf(d, paragraph_index)
                target_position == PositionInSection(d, paragraph_index)
                inserted == NewParagraph(text, resolve_style(style), FALSE)
                appended == Append(d[s], inserted)
                removed == RemoveAt(appended, Len(appended) - 1)
            IN  Ok([d EXCEPT ![s] = InsertAt(removed, target_position, inserted)],
                   paragraph_index)

\* Mutant of delete_paragraph_from_doc: the node is removed even when it is
\* the only paragraph.
delete_paragraph_always_removes(d, paragraph_index) ==
    LET total == Len(Paragraphs(d))
    IN  IF paragraph_index < 0 \/ paragraph_index >= total
        THEN Raise(d, "ValueError")
        ELSE Ok([d EXCEPT ![SectionOf(d, paragraph_index)] =
                    RemoveAt(@, PositionInSection(d, paragraph_index))],
                total - 1)

\* Mutant of delete_paragraph_from_doc: the paragraph is blanked and its node
\* stays in the section as an empty placeholder.
delete_paragraph_leaves_placeholder(d, paragraph_index) ==
    LET total == Len(Paragraphs(d))
    IN  IF paragraph_index < 0 \/ paragraph_index >= total
        THEN Raise(d, "ValueError")
        ELSE Ok([d EXCEPT ![SectionOf(d, paragraph_index)]
                            [PositionInSection(d, paragraph_index) + 1].runs =
                        [i \in 1..Len(@) |-> <<>>]],
                IF total <= 1 THEN total ELSE total - 1)

delete_paragraph_from_doc(d, paragraph_index) ==
    LET total == Len(Paragraphs(d))
    IN  IF paragraph_index < 0 \/ paragraph_index >= total
        THEN Raise(d, "ValueError")
        ELSE
            LET s == SectionOf(d, paragraph_index)
                pos == PositionInSection(d, paragraph_index)
                target == d[s][pos + 1]
            IN  IF total <= 1
                THEN Ok([d EXCEPT ![s][pos + 1].runs =
                            [i \in 1..Len(target.runs) |-> <<>>]],
                        total)
                ELSE Ok([d EXCEPT ![s] = RemoveAt(@, pos)], total - 1)

add_page_break_to_doc(d) ==
    Ok(DocAddParagraph(d, NewParagraph(<<>>, None, TRUE)), None)

---------------------------------------------------------------------------
\* Tables.  A table is a sequence of rows, a row a sequence of cells, a cell
\* the run list of its paragraph and its cellSpan element: None when the
\* element is absent, Some(<<rowSpan, colSpan>>) otherwise.

\* a cell as doc.add_table creates it, then cell.text = value
CellWithText(text) == [runs |-> <<text>>, span |-> Some(<<1, 1>>)]

\* for paragraph in doc.paragraphs: for table in paragraph.tables
iter_tables(d) == Join([i \in 1..Len(Paragraphs(d)) |-> Paragraphs(d)[i].tables])

\* doc.add_table(rows, cols): the library appends a paragraph anchoring the
\* new table to the last section
DocAddTable(d, table) ==
    DocAddParagraph(d, [NewParagraph(<<>>, None, FALSE) EXCEPT !.tables = <<table>>])

add_table_to_doc(d, rows, cols, data) ==
    IF rows <= 0 \/ cols <= 0
    THEN Raise(d, "ValueError")
    ELSE
        LET payload == data
            table == [r \in 1..rows |-> [c \in 1..cols |->
                        IF r <= Len(payload) /\ c <= Len(payload[r])
                        THEN CellWithText(payload[r][c])
                        ELSE CellWithText(<<>>)]]
            d1 == DocAddTable(d, table)
        IN  Ok(d1, Len(iter_tables(d1)) - 1)

\* para.text = value: the library keeps the first run and blanks the others
SetText(rs, text) ==
    IF rs = <<>> THEN <<text>>
    ELSE [i \in 1..Len(rs) |-> IF i = 1 THEN text ELSE <<>>]

\* number of tables anchored to the paragraphs before paragraph i (1-based)
\* of section s
TablesBefore(d, s, i) ==
    SumSeq([k \in 1..(SectionOffset(d, s) + i - 1) |-> Len(Paragraphs(d)[k].tables)])

\* the document with the table at table_index of the enumeration replaced
WithTable(d, table_index, table) ==
    [s \in 1..Len(d) |-> [i \in 1..Len(d[s]) |->
        [d[s][i] EXCEPT !.tables = [t \in 1..Len(@) |->
            IF TablesBefore(d, s, i) + t - 1 = table_index THEN table ELSE @[t]]]]]

\* the span a reader sees: rowSpan 1, colSpan 1 when the element is absent
SpanOf(cell) == IF cell.span = None THEN <<1, 1>> ELSE cell.span[1]

\* cell.text
CellText(cell) == Join(cell.runs)

set_cell_text(d, table_index, row, col, text) ==
    LET tables == iter_tables(d)
    IN  IF table_index < 0 \/ table_index >= Len(tables)
        THEN Raise(d, "ValueError")
        ELSE
            LET table == tables[table_index + 1]
            IN  IF row < 0 \/ row >= Len(table)
                THEN Raise(d, "ValueError")
                ELSE IF col < 0 \/ col >= Len(table[row + 1])
                THEN Raise(d, "ValueError")
                ELSE Ok(WithTable(d, table_index,
                            [table EXCEPT ![row + 1][col + 1].runs = SetText(@, text)]),
                        None)

\* the cells the loop of merge_cells_in_table has rewritten when it stops:
\* row-major positions of the rectangle below limit
MergeLoop(table, start_row, start_col, end_row, end_col, limit) ==
    [r \in 1..Len(table) |-> [c \in 1..Len(table[r]) |->
        LET row == r - 1
            col == c - 1
            cell == table[r][c]
            inside == /\ row >= start_row /\ row <= end_row
                      /\ col >= start_col /\ col <= end_col
            position == (row - start_row) * (end_col - start_col + 1) + (col - start_col)
        IN  IF row = start_row /\ col = start_col
            THEN [cell EXCEPT !.span = Some(<<end_row - start_row + 1,
                                              end_col - start_col + 1>>)]
            ELSE IF inside /\ position < limit
            THEN [runs |-> SetText(cell.runs, <<>>),
                  span |-> IF cell.span # None THEN Some(<<0, 0>>) ELSE cell.span]
            ELSE cell]]

\* merge_cells_in_table: the checks, the anchor's span, then the loop over the
\* rectangle, which raises IndexError at the first position a row lacks,
\* after the cells before it were rewritten
merge_cells_in_table(d, table_index, start_row, start_col, end_row, end_col) ==
    LET tables == iter_tables(d)
    IN  IF table_index < 0 \/ table_index >= Len(tables)
        THEN Raise(d, "ValueError")
        ELSE IF start_row > end_row \/ start_col > end_col
        THEN Raise(d, "ValueError")
        ELSE
            LET table == tables[table_index + 1]
            IN  IF start_row < 0 \/ end_row >= Len(table)
                THEN Raise(d, "ValueError")
                ELSE IF start_col < 0 \/ end_col >= Len(table[start_row + 1])
                THEN Raise(d, "ValueError")
                ELSE IF table[start_row + 1][start_col + 1].span = None
                THEN Raise(d, "RuntimeError")
                ELSE
                    LET width == end_col - start_col + 1
                        height == end_row - start_row + 1
                        \* positions where table.rows[row].cells[col] has no cell
                        missing == {(row - start_row) * width + (col - start_col) :
                                      <<row, col>> \in
                                        {rc \in (start_row..end_row) \X (start_col..end_col) :
                                            rc[2] >= Len(table[rc[1] + 1])}}
                    IN  IF missing = {}
                        THEN Ok(WithTable(d, table_index,
                                    MergeLoop(table, start_row, start_col, end_row, end_col,
                                              width * height)),
                                None)
                        ELSE Raise(WithTable(d, table_index,
                                       MergeLoop(table, start_row, start_col, end_row, end_col,
                                                 SetMin(missing))),
                                   "IndexError")

\* Mutant of split_cell_in_table: only the addressed cell is reset.
split_cell_anchor_only(d, table_index, row, col) ==
    LET tables == iter_tables(d)
    IN  IF table_index < 0 \/ table_index >= Len(tables)
        THEN Raise(d, "ValueError")
        ELSE
            LET table == tables[table_index + 1]
            IN  IF row < 0 \/ row >= Len(table)
                THEN Raise(d, "ValueError")
                ELSE IF col < 0 \/ col >= Len(table[row + 1])
                THEN Raise(d, "ValueError")
                ELSE IF table[row + 1][col + 1].span = None
                THEN Ok(d, [rowSpan |-> 1, colSpan |-> 1])
                ELSE
                    LET original == table[row + 1][col + 1].span[1]
                    IN  Ok(WithTable(d, table_index,
                                [table EXCEPT ![row + 1][col + 1].span = Some(<<1, 1>>)]),
                           [rowSpan |-> original[1], colSpan |-> original[2]])

split_cell_in_table(d, table_index, row, col) ==
    LET tables == iter_tables(d)
    IN  IF table_index < 0 \/ table_index >= Len(tables)
        THEN Raise(d, "ValueError")
        ELSE
            LET table == tables[table_index + 1]
            IN  IF row < 0 \/ row >= Len(table)
                THEN Raise(d, "ValueError")
                ELSE IF col < 0 \/ col >= Len(table[row + 1])
                THEN Raise(d, "ValueError")
                ELSE IF table[row + 1][col + 1].span = None
                THEN Ok(d, [rowSpan |-> 1, colSpan |-> 1])
                ELSE
                    LET original == table[row + 1][col + 1].span[1]
                        last_row == row + Max(1, original[1]) - 1
                        last_col == col + Max(1, original[2]) - 1
                    IN  Ok(WithTable(d, table_index,
                                [r \in 1..Len(table) |-> [c \in 1..Len(table[r]) |->
                                    IF /\ r - 1 >= row /\ r - 1 <= last_row
                                       /\ c - 1 >= col /\ c - 1 <= last_col
                                       /\ table[r][c].span # None
                                    THEN [table[r][c] EXCEPT !.span = Some(<<1, 1>>)]
                                    ELSE table[r][c]]]),
                           [rowSpan |-> original[1], colSpan |-> original[2]])

---------------------------------------------------------------------------
\* Search and replace over a document: find_in_doc, replace_in_doc,
\* batch_replace_in_doc.

ContextWindow == 20

DefaultMaxResults == 50

LowerChar(c) == IF c = "A" THEN "a" ELSE IF c = "B" THEN "b" ELSE c

\* str.lower()
Lower(s) == [i \in 1..Len(s) |-> LowerChar(s[i])]

\* Mutant of FindLoop: the cursor advances by one character after a hit, so
\* overlapping occurrences are reported.
RECURSIVE FindLoopOverlapping(_, _, _, _, _, _, _)
FindLoopOverlapping(paras, index, cursor, matches, text_to_find, match_case, max_results) ==
    IF index >= Len(paras) THEN matches
    ELSE
        LET needle == IF match_case THEN text_to_find ELSE Lower(text_to_find)
            haystack_raw == ParaText(paras[index + 1])
            haystack == IF match_case THEN haystack_raw ELSE Lower(haystack_raw)
            pos == StrFind(haystack, needle, cursor)
            context_start == Max(0, pos - ContextWindow)
            context_end == Min(Len(haystack_raw), pos + Len(text_to_find) + ContextWindow)
            found == Append(matches, [paragraph_index |-> index, position |-> pos,
                                      context |-> Slice(haystack_raw, context_start, context_end)])
        IN  IF pos < 0
            THEN FindLoopOverlapping(paras, index + 1, 0, matches, text_to_find,
                                     match_case, max_results)
            ELSE IF Len(found) >= max_results
            THEN found
            ELSE FindLoopOverlapping(paras, index, pos + 1, found,
                                     text_to_find, match_case, max_results)

RECURSIVE FindLoop(_, _, _, _, _, _, _)
FindLoop(paras, index, cursor, matches, text_to_find, match_case, max_results) ==
    IF index >= Len(paras) THEN matches
    ELSE
        LET needle == IF match_case THEN text_to_find ELSE Lower(text_to_find)
            haystack_raw == ParaText(paras[index + 1])
            haystack == IF match_case THEN haystack_raw ELSE Lower(haystack_raw)
            pos == StrFind(haystack, needle, cursor)
            context_start == Max(0, pos - ContextWindow)
            context_end == Min(Len(haystack_raw), pos + Len(text_to_find) + ContextWindow)
            found == Append(matches, [paragraph_index |-> index, position |-> pos,
                                      context |-> Slice(haystack_raw, context_start, context_end)])
        IN  IF pos < 0
            THEN FindLoop(paras, index + 1, 0, matches, text_to_find, match_case, max_results)
            ELSE IF Len(found) >= max_results
            THEN found
            ELSE FindLoop(paras, index, pos + Max(1, Len(text_to_find)), found,
                          text_to_find, match_case, max_results)

\* the calls haystack.find(needle, cursor) the loop of find_in_doc makes, in
\* order, as pairs <<paragraph index, cursor>>
RECURSIVE FindProbes(_, _, _, _, _, _, _)
FindProbes(paras, index, cursor, count, text_to_find, match_case, max_results) ==
    IF index >= Len(paras) THEN <<>>
    ELSE
        LET needle == IF match_case THEN text_to_find ELSE Lower(text_to_find)
            haystack_raw == ParaText(paras[index + 1])
            haystack == IF match_case THEN haystack_raw ELSE Lower(haystack_raw)
            pos == StrFind(haystack, needle, cursor)
        IN  <<<<index, cursor>>>> \o
            (IF pos < 0
             THEN FindProbes(paras, index + 1, 0, count, text_to_find, match_case,
                             max_results)
             ELSE IF count + 1 >= max_results
             THEN <<>>
             ELSE FindProbes(paras, index, pos + Max(1, Len(text_to_find)), count + 1,
                             text_to_find, match_case, max_results))

\* Mutant of find_in_doc: the scan collects every match and only the count
\* it reports is capped.
find_in_doc_scans_all(d, text_to_find, match_case, max_results) ==
    IF text_to_find = <<>>
    THEN Raise(d, "ValueError")
    ELSE LET matches == FindLoop(Paragraphs(d), 0, 0, <<>>, text_to_find, match_case,
                                 Len(Join([i \in 1..Len(Paragraphs(d)) |->
                                             ParaText(Paragraphs(d)[i])])) + 1)
         IN  Ok(d, [matches |-> matches,
                    total_matches |-> Min(Len(matches), Max(1, max_results))])

find_in_doc(d, text_to_find, match_case, max_results) ==
    IF text_to_find = <<>>
    THEN Raise(d, "ValueError")
    ELSE LET matches == FindLoop(Paragraphs(d), 0, 0, <<>>, text_to_find, match_case, max_results)
         IN  Ok(d, [matches |-> matches, total_matches |-> Len(matches)])

\* one paragraph of the first loop of replace_in_doc
ReplaceInParagraph(p, find_text, replace_text) ==
    Bind(IF p.runs # <<>>
         THEN replace_in_runs(p.runs, find_text, replace_text)
         ELSE [runs |-> p.runs, count |-> 0],
         LAMBDA r :
        LET has_tables == p.tables # <<>>
            text == Join(r.runs)
        IN  IF r.count = 0 /\ ~has_tables /\ Contains(text, find_text)
            THEN [node |-> [p EXCEPT !.runs =
                              SetText(r.runs, StrReplace(text, find_text, replace_text))],
                  count |-> StrCount(text, find_text)]
            ELSE [node |-> [p EXCEPT !.runs = r.runs], count |-> r.count])

\* one cell of the second loop of replace_in_doc
ReplaceInCell(cell, find_text, replace_text) ==
    Bind(IF cell.runs # <<>>
         THEN replace_in_runs(cell.runs, find_text, replace_text)
         ELSE [runs |-> cell.runs, count |-> 0],
         LAMBDA r :
        LET text == Join(r.runs)
        IN  IF r.count = 0 /\ Contains(text, find_text)
            THEN [node |-> [cell EXCEPT !.runs =
                              SetText(r.runs, StrReplace(text, find_text, replace_text))],
                  count |-> StrCount(text, find_text)]
            ELSE [node |-> [cell EXCEPT !.runs = r.runs], count |-> r.count])

\* the cells of the tables of one paragraph, replaced, and their count
ReplaceInTables(tables, find_text, replace_text) ==
    Bind([t \in 1..Len(tables) |-> [r \in 1..Len(tables[t]) |->
             [c \in 1..Len(tables[t][r]) |->
                 ReplaceInCell(tables[t][r][c], find_text, replace_text)]]],
         LAMBDA done :
        [node |-> [t \in 1..Len(tables) |-> [r \in 1..Len(tables[t]) |->
                    [c \in 1..Len(tables[t][r]) |-> done[t][r][c].node]]],
         count |-> SumSeq([t \in 1..Len(tables) |-> SumSeq([r \in 1..Len(tables[t]) |->
                    SumSeq([c \in 1..Len(tables[t][r]) |-> done[t][r][c].count])])])])

replace_in_doc(d, find_text, replace_text) ==
    IF find_text = <<>>
    THEN Raise(d, "ValueError")
    ELSE
        Bind([s \in 1..Len(d) |-> [i \in 1..Len(d[s]) |->
                 ReplaceInParagraph(d[s][i], find_text, replace_text)]], LAMBDA body :
        Bind([s \in 1..Len(d) |-> [i \in 1..Len(d[s]) |->
                 ReplaceInTables(d[s][i].tables, find_text, replace_text)]], LAMBDA cells :
            Ok([s \in 1..Len(d) |-> [i \in 1..Len(d[s]) |->
                    [body[s][i].node EXCEPT !.tables = cells[s][i].node]]],
               SumSeq([s \in 1..Len(d) |-> SumSeq([i \in 1..Len(d[s]) |->
                    body[s][i].count + cells[s][i].count])]))))

\* for index, item in enumerate(replacements): validate the item, then replace
RECURSIVE BatchLoop(_, _, _, _, _)
BatchLoop(d, replacements, index, results, total) ==
    IF index >= Len(replacements)
    THEN Ok(d, [results |-> results, total_replaced |-> total])
    ELSE
        LET item == replacements[index + 1]
            found == item.find
            repl == item.replace
        IN  IF found = <<>>
            THEN Raise(d, "ValueError")
            ELSE Bind(replace_in_doc(d, found, repl), LAMBDA one :
                 Bind(Append(results, [find |-> found, replace |-> repl,
                                       replaced_count |-> one.ret]), LAMBDA appended :
                    BatchLoop(one.doc, replacements, index + 1, appended,
                              total + one.ret)))

\* Mutant of batch_replace_in_doc: every pair is applied to the document as
\* it was before the batch, and the last result is kept.
RECURSIVE BatchLoopStale(_, _, _, _, _, _)
BatchLoopStale(d, latest, replacements, index, results, total) ==
    IF index >= Len(replacements)
    THEN Ok(latest, [results |-> results, total_replaced |-> total])
    ELSE
        LET item == replacements[index + 1]
        IN  IF item.find = <<>>
            THEN Raise(latest, "ValueError")
            ELSE Bind(replace_in_doc(d, item.find, item.replace), LAMBDA one :
                 Bind(Append(results, [find |-> item.find, replace |-> item.replace,
                                       replaced_count |-> one.ret]), LAMBDA appended :
                    BatchLoopStale(d, one.doc, replacements, index + 1, appended,
                                   total + one.ret)))

batch_replace_stale(d, replacements) == BatchLoopStale(d, d, replacements, 0, <<>>, 0)

batch_replace_in_doc(d, replacements) == BatchLoop(d, replacements, 0, <<>>, 0)

---------------------------------------------------------------------------
\* The tools of server.py: open_doc, the core operation, save_doc.  A tool
\* that raises never reaches save_doc, so the file keeps its content.

\* save_doc(doc, path): doc.save(path)
save_doc(d) == d

Tool(request, outcome, saves) ==
    /\ prev' = file
    /\ doc' = outcome.doc
    /\ file' = IF saves /\ outcome.err = "none" THEN save_doc(outcome.doc) ELSE file
    /\ call' = request @@ [ret |-> outcome.ret, err |-> outcome.err]
    /\ UNCHANGED <<runs, rcall, dist, disk>>

Count(d) == Len(Paragraphs(d))

HeadingTexts == {<<" ", "a">>}

HeadingLevels == {0, 7}

ParagraphTexts == {<<"a", "b">>}

InsertTexts == {<<"b">>}

Styles == {None, Some(<<" ">>), Some(<<"s", " ">>)}

FindInputs == {<<>>, <<"a">>, <<"a", "b">>}

ReplaceInputs == {<<>>, <<"a">>, <<"c">>}

BatchItems == {[find |-> <<"a">>, replace |-> <<"b">>],
               [find |-> <<"b">>, replace |-> <<"c">>],
               [find |-> <<>>, replace |-> <<"c">>]}

TableData == {<<>>, << <<<<"a">>, <<"b">>>> >>}

AddHeading ==
    /\ Count(file) < MaxParas
    /\ \E text \in HeadingTexts, level \in HeadingLevels :
          \E outcome \in {add_heading_to_doc(file, text, level)} :
             Tool([op |-> "add_heading", text |-> text, level |-> level], outcome, TRUE)

AddParagraph ==
    /\ Count(file) < MaxParas
    /\ \E text \in ParagraphTexts, style \in Styles :
          \E outcome \in {add_paragraph_to_doc(file, text, style)} :
             Tool([op |-> "add_paragraph", text |-> text, style |-> style], outcome, TRUE)

InsertParagraph ==
    /\ Count(file) < MaxParas
    /\ \E paragraph_index \in -1..(Count(file) + 1), text \in InsertTexts :
          \E outcome \in {insert_paragraph_to_doc(file, paragraph_index, text, None)} :
             Tool([op |-> "insert_paragraph", paragraph_index |-> paragraph_index,
                   text |-> text, style |-> None], outcome, TRUE)

DeleteParagraph ==
    \E paragraph_index \in -1..Count(file) :
        \E outcome \in {delete_paragraph_from_doc(file, paragraph_index)} :
           Tool([op |-> "delete_paragraph", paragraph_index |-> paragraph_index],
                outcome, TRUE)

AddPageBreak ==
    /\ Count(file) < MaxParas
    /\ \E outcome \in {add_page_break_to_doc(file)} :
          Tool([op |-> "add_page_break"], outcome, TRUE)

AddTable ==
    /\ Count(file) < MaxParas
    /\ \E rows \in 0..1, cols \in 0..1, data \in TableData :
          \E outcome \in {add_table_to_doc(file, rows, cols, data)} :
             Tool([op |-> "add_table", rows |-> rows, cols |-> cols, data |-> data],
                  outcome, TRUE)

SearchAndReplace ==
    \E find_text \in FindInputs, replace_text \in ReplaceInputs :
        \E outcome \in {replace_in_doc(file, find_text, replace_text)} :
           Tool([op |-> "search_and_replace", find |-> find_text, replace |-> replace_text],
                outcome, TRUE)

BatchReplace ==
    \E replacements \in SeqsUpTo(BatchItems, MaxBatch) :
        \E outcome \in {batch_replace_in_doc(file, replacements)} :
           Tool([op |-> "batch_replace", replacements |-> replacements], outcome, TRUE)

CellTexts == {<<"x">>}

\* row and column indices offered to split_table_cell: every cell of the
\* tables at hand and one row or column above, and one index below zero
Coords == ((0..MaxCoord) \X (0..MaxCoord)) \cup {<<-1, 0>>, <<0, -1>>}

\* the rectangles offered to merge_table_cells: every pair of corners in or
\* one above the tables at hand, and a corner below zero
Rectangles ==
    ((0..(MaxCoord - 1)) \X (0..(MaxCoord - 1)) \X (0..MaxCoord) \X (0..MaxCoord))
        \cup {<<-1, 0, 0, 0>>, <<0, -1, 0, 0>>}

\* the cell offered to set_table_cell_text: the first one, or out of range
CellCoords == {-1, 0, MaxCoord}

\* table indices offered with the coordinates at their first value: every
\* table of the document, and one below and one above
TableIndices(d, first) ==
    IF first THEN -1..Len(iter_tables(d)) ELSE 0..(Len(iter_tables(d)) - 1)

SetTableCellText ==
    \E row \in CellCoords, col \in CellCoords, text \in CellTexts :
    \E table_index \in TableIndices(file, row = 0 /\ col = 0) :
        \E outcome \in {set_cell_text(file, table_index, row, col, text)} :
           Tool([op |-> "set_table_cell_text", table_index |-> table_index,
                 row |-> row, col |-> col, text |-> text], outcome, TRUE)

MergeTableCells ==
    \E <<start_row, start_col, end_row, end_col>> \in Rectangles :
    \E table_index \in TableIndices(file, <<start_row, start_col, end_row, end_col>>
                                            = <<0, 0, 0, 0>>) :
        \E outcome \in {merge_cells_in_table(file, table_index, start_row, start_col,
                                              end_row, end_col)} :
           Tool([op |-> "merge_table_cells", table_index |-> table_index,
                 start_row |-> start_row, start_col |-> start_col,
                 end_row |-> end_row, end_col |-> end_col], outcome, TRUE)

SplitTableCell ==
    \E <<row, col>> \in Coords :
    \E table_index \in TableIndices(file, row = 0 /\ col = 0) :
        \E outcome \in {split_cell_in_table(file, table_index, row, col)} :
           Tool([op |-> "split_table_cell", table_index |-> table_index,
                 row |-> row, col |-> col], outcome, TRUE)

\* characters of the searched paragraphs: a letter in both cases and another
FindAlphabet == {"a", "A", "b"}

Needles == {<<>>, <<"a">>, <<"a", "a">>, <<"A", "b">>}

\* max_results: not positive, one, two, and the default
MaxResultsInputs == {0, 1, 2, DefaultMaxResults}

\* find_text reads the file and saves nothing
FindText ==
    \E text_to_find \in Needles, match_case \in BOOLEAN, max_results \in MaxResultsInputs :
        \E outcome \in {find_in_doc(file, text_to_find, match_case, max_results)} :
           Tool([op |-> "find_text", text_to_find |-> text_to_find,
                 match_case |-> match_case, max_results |-> max_results], outcome, FALSE)

\* a paragraph of several runs, as a file read by open_doc may hold
ParagraphOfRuns(rs) == [NewParagraph(<<>>, None, FALSE) EXCEPT !.runs = rs]

\* a paragraph anchoring a one-cell table whose cell holds the runs rs
ParagraphOfCell(rs) ==
    [NewParagraph(<<>>, None, FALSE) EXCEPT
        !.tables = << << <<[runs |-> rs, span |-> Some(<<1, 1>>)]>> >> >>]

\* documents the structural specification starts from: one section with one
\* paragraph, and two sections
InitDocs ==
    {<< <<ParagraphOfRuns(<< <<"a">>, <<"b">> >>)>> >>,
     << <<NewParagraph(<<"a", "b">>, None, FALSE)>>,
        <<ParagraphOfRuns(<< <<"a">>, <<"b">> >>)>> >>}

\* documents the search-and-replace specification starts from: paragraphs
\* cut into runs at different offsets, in one or two sections, and a table cell
InitReplaceDocs ==
    {<< <<ParagraphOfRuns(<< <<"a">>, <<"b", "b">> >>)>> >>,
     << <<ParagraphOfRuns(<< <<"a", "b">>, <<"a">>, <<"b">> >>)>>,
        <<NewParagraph(<<"b", "a", "b">>, None, FALSE),
          ParagraphOfCell(<< <<"a">>, <<"b">> >>)>> >>}

\* a paragraph anchoring one table
ParagraphOfTable(table) == [NewParagraph(<<>>, None, FALSE) EXCEPT !.tables = <<table>>]

\* a cell of a file read by open_doc whose cellSpan element is absent
CellWithoutSpan(text) == [runs |-> <<text>>, span |-> None]

\* documents the table specification starts from: a two-by-two table as
\* add_table builds it; and, in a second section, a table whose second row
\* is shorter and whose cell (0, 1) has no cellSpan element
InitTableDocs ==
    {<< <<NewParagraph(<<"a">>, None, FALSE),
          ParagraphOfTable(<< <<CellWithText(<<"a">>), CellWithText(<<"b">>)>>,
                              <<CellWithText(<<"c">>), CellWithText(<<"d">>)>> >>)>> >>,
     << <<NewParagraph(<<"a">>, None, FALSE)>>,
        <<ParagraphOfTable(<< <<CellWithText(<<"a">>), CellWithoutSpan(<<"b">>)>>,
                              <<CellWithText(<<"c">>)>> >>)>> >>}

\* documents the search specification starts from: a first paragraph holding
\* any text up to MaxHaystack characters, a second one empty or "aa"
InitFindDocs ==
    {<< <<NewParagraph(first, None, FALSE), NewParagraph(second, None, FALSE)>> >> :
        first \in SeqsUpTo(FindAlphabet, MaxHaystack), second \in {<<>>, <<"a", "a">>}}

Init ==
    /\ file \in InitDocs
    /\ doc = file
    /\ prev = file
    /\ call = [op |-> "none"]
    /\ runs = <<>>
    /\ rcall = NoRunCall
    /\ dist = NoDist
    /\ disk = NoDisk

\* The structural editor: paragraph and table operations in any order.
Next ==
    \/ AddHeading
    \/ AddParagraph
    \/ InsertParagraph
    \/ DeleteParagraph
    \/ AddPageBreak
    \/ AddTable

Spec == Init /\ [][Next]_vars

\* The search-and-replace tools in any order.
InitReplace ==
    /\ file \in InitReplaceDocs
    /\ doc = file
    /\ prev = file
    /\ call = [op |-> "none"]
    /\ runs = <<>>
    /\ rcall = NoRunCall
    /\ dist = NoDist
    /\ disk = NoDisk

NextReplace ==
    \/ SearchAndReplace
    \/ BatchReplace

SpecReplace == InitReplace /\ [][NextReplace]_vars

---------------------------------------------------------------------------
\* Properties of the search-and-replace tools (SpecReplace).


\* number of matches find_text reports for needle in document d
Matches(d, needle) == find_in_doc(d, needle, TRUE, DefaultMaxResults).ret.total_matches

Chars(s) == {s[i] : i \in 1..Len(s)}

BatchRejectsAtomically ==
    (/\ call.op = "batch_replace"
     /\ \E i \in 1..Len(call.replacements) : call.replacements[i].find = <<>>) =>
        /\ call.err = "ValueError"
        /\ doc = prev

\* the single replace operation called once per pair, in list order
RECURSIVE ReplaceEach(_, _)
ReplaceEach(d, pairs) ==
    IF pairs = <<>> THEN <<>>
    ELSE Bind(replace_in_doc(d, Head(pairs).find, Head(pairs).replace), LAMBDA one :
            <<one>> \o ReplaceEach(one.doc, Tail(pairs)))

\* C7: a batch that is accepted applies its pairs in list order, each on the
\* text the previous pairs produced: the final document and the per-pair
\* counts are those of one single replace per pair in that order, and
\* total_replaced is the sum of the per-pair counts.
BatchAppliesInOrder ==
    (call.op = "batch_replace" /\ call.err = "none") =>
        \A steps \in {ReplaceEach(prev, call.replacements)} :
        LET n == Len(call.replacements)
        IN  /\ doc = IF n = 0 THEN prev ELSE steps[n].doc
            /\ Len(call.ret.results) = n
            /\ \A i \in 1..n :
                  /\ call.ret.results[i].replaced_count = steps[i].ret
                  /\ call.ret.results[i].find = call.replacements[i].find
            /\ call.ret.total_replaced =
                  SumSeq([i \in 1..n |-> call.ret.results[i].replaced_count])

\* C7 witness: the rollover batch [b -> c, a -> b] on the text "abb" gives
\* "bcc" with three replacements, not "ccc".
BatchAppliesInOrderWitness ==
    /\ call.op = "batch_replace"
    /\ call.err = "none"
    /\ call.replacements = <<[find |-> <<"b">>, replace |-> <<"c">>],
                             [find |-> <<"a">>, replace |-> <<"b">>]>>
    /\ ParaText(Paragraphs(prev)[1]) = <<"a", "b", "b">>
    /\ ParaText(Paragraphs(doc)[1]) = <<"b", "c", "c">>
    /\ call.ret.total_replaced = 3

---------------------------------------------------------------------------
\* Properties of the structural editor (Spec).

\* C8: insert(i, text) with 0 <= i <= n yields n + 1 paragraphs, the new one
\* at flattened index i immediately before the paragraph that occupied i, the
\* others in their order, and returns i.
InsertOrdering ==
    (/\ call.op = "insert_paragraph"
     /\ call.paragraph_index >= 0
     /\ call.paragraph_index <= Count(prev)) =>
        LET i == call.paragraph_index
            before == Paragraphs(prev)
            after == Paragraphs(doc)
        IN  /\ call.err = "none"
            /\ call.ret = i
            /\ Len(after) = Len(before) + 1
            /\ after[i + 1] = NewParagraph(call.text, None, FALSE)
            /\ \A j \in 1..i : after[j] = before[j]
            /\ \A j \in (i + 1)..Len(before) : after[j + 1] = before[j]

\* C8 witness: an insert before a paragraph of the first of two sections,
\* where the library appended the new paragraph at the end of that section.
InsertOrderingWitness ==
    /\ call.op = "insert_paragraph"
    /\ call.err = "none"
    /\ Len(prev) = 2
    /\ Len(prev[1]) = 1
    /\ Len(prev[2]) = 1
    /\ call.paragraph_index = 0
    /\ call.ret = 0
    /\ Len(doc[1]) = 2
    /\ Len(doc[2]) = 1
    /\ ParaText(doc[1][1]) = call.text
    /\ doc[1][2] = prev[1][1]

\* C9: the paragraph count never drops below one; deleting the only
\* paragraph leaves one paragraph with its text cleared; and delete returns
\* the count that remains.
AtLeastOneParagraph ==
    /\ Count(file) >= 1
    /\ Count(doc) >= 1
    /\ (call.op = "delete_paragraph" /\ call.err = "none") =>
          /\ call.ret = Count(doc)
          /\ Count(prev) = 1 =>
                /\ Count(doc) = 1
                /\ ParaText(Paragraphs(doc)[1]) = <<>>

\* C9 witness: the only paragraph, holding text, was deleted.
AtLeastOneParagraphWitness ==
    /\ call.op = "delete_paragraph"
    /\ call.err = "none"
    /\ Count(prev) = 1
    /\ ParaText(Paragraphs(prev)[1]) # <<>>
    /\ Count(doc) = 1
    /\ call.ret = 1

\* C10 (as claimed): after delete-paragraph on the only paragraph, every run
\* of the paragraph and every cell of every table anchored to it is empty.
DeleteOnlyClearsTables ==
    (/\ call.op = "delete_paragraph"
     /\ call.err = "none"
     /\ Count(prev) = 1) =>
        LET p == Paragraphs(doc)[1]
        IN  /\ \A i \in 1..Len(p.runs) : p.runs[i] = <<>>
            /\ \A t \in 1..Len(p.tables) : \A r \in 1..Len(p.tables[t]) :
                  \A c \in 1..Len(p.tables[t][r]) : Join(p.tables[t][r][c].runs) = <<>>

\* C11: in a document with more than one paragraph, delete(i) removes exactly
\* the paragraph at flattened index i: the count drops by one and is returned,
\* the other paragraphs keep their content and order, no placeholder stays;
\* so insert(i, t) followed by delete(i) gives back the paragraph sequence.
DeleteUndoesInsert ==
    /\ (/\ call.op = "delete_paragraph"
        /\ call.paragraph_index >= 0
        /\ call.paragraph_index < Count(prev)
        /\ Count(prev) > 1) =>
            /\ call.err = "none"
            /\ call.ret = Count(prev) - 1
            /\ Count(doc) = Count(prev) - 1
            /\ Paragraphs(doc) = RemoveAt(Paragraphs(prev), call.paragraph_index)
    /\ \A i \in 0..Count(file), t \in InsertTexts :
          \A inserted \in {insert_paragraph_to_doc(file, i, t, None)} :
          \A deleted \in {delete_paragraph_from_doc(inserted.doc, i)} :
              /\ inserted.err = "none"
              /\ deleted.err = "none"
              /\ deleted.ret = Count(file)
              /\ Paragraphs(deleted.doc) = Paragraphs(file)

\* C11 witness: a delete at index 0 took out of a three-paragraph document
\* the paragraph that an insert at index 0 puts there.
DeleteUndoesInsertWitness ==
    /\ call.op = "delete_paragraph"
    /\ call.err = "none"
    /\ call.paragraph_index = 0
    /\ Count(prev) = 3
    /\ call.ret = 2
    /\ prev = insert_paragraph_to_doc(doc, 0, <<"b">>, None).doc

---------------------------------------------------------------------------
\* The table tools in any order.
InitTable ==
    /\ file \in InitTableDocs
    /\ doc = file
    /\ prev = file
    /\ call = [op |-> "none"]
    /\ runs = <<>>
    /\ rcall = NoRunCall
    /\ dist = NoDist
    /\ disk = NoDisk

NextTable ==
    \/ SetTableCellText
    \/ MergeTableCells
    \/ SplitTableCell

SpecTable == InitTable /\ [][NextTable]_vars

---------------------------------------------------------------------------
\* Properties of the table tools (SpecTable).

\* the cell at (row, col), 0-based, of a table
CellAt(table, row, col) == table[row + 1][col + 1]

\* (row, col) names a cell of the table
HasCell(table, row, col) ==
    /\ row >= 0 /\ row < Len(table)
    /\ col >= 0 /\ col < Len(table[row + 1])

\* the cells of a table, as 0-based pairs
CellsOf(table) ==
    {rc \in (0..(Len(table) - 1)) \X (0..MaxCoord) : HasCell(table, rc[1], rc[2])}

\* the rectangle (r1, c1)-(r2, c2) is well formed and every cell of it exists
InBounds(table, r1, c1, r2, c2) ==
    /\ r1 <= r2 /\ c1 <= c2
    /\ \A r \in r1..r2, c \in c1..c2 : HasCell(table, r, c)

\* C12 (as claimed): after a merge of an in-bounds rectangle the top-left cell
\* has span (r2-r1+1, c2-c1+1) and keeps its text, every other cell of the
\* rectangle has span (0,0) and empty text, and the cells outside the
\* rectangle keep span and text.
MergePostcondition ==
    (/\ call.op = "merge_table_cells"
     /\ call.err = "none"
     /\ InBounds(iter_tables(prev)[call.table_index + 1],
                 call.start_row, call.start_col, call.end_row, call.end_col)) =>
        LET before == iter_tables(prev)[call.table_index + 1]
            after == iter_tables(doc)[call.table_index + 1]
        IN  /\ CellsOf(after) = CellsOf(before)
            /\ \A rc \in CellsOf(before) :
                  LET old == CellAt(before, rc[1], rc[2])
                      new == CellAt(after, rc[1], rc[2])
                  IN  IF rc = <<call.start_row, call.start_col>>
                      THEN /\ SpanOf(new) = <<call.end_row - call.start_row + 1,
                                              call.end_col - call.start_col + 1>>
                           /\ CellText(new) = CellText(old)
                      ELSE IF /\ rc[1] >= call.start_row /\ rc[1] <= call.end_row
                              /\ rc[2] >= call.start_col /\ rc[2] <= call.end_col
                      THEN /\ SpanOf(new) = <<0, 0>>
                           /\ CellText(new) = <<>>
                      ELSE new = old

\* the cells covered by the span of the cell at rc
Covered(table, rc) ==
    {xy \in CellsOf(table) :
        /\ xy[1] >= rc[1] /\ xy[1] < rc[1] + SpanOf(CellAt(table, rc[1], rc[2]))[1]
        /\ xy[2] >= rc[2] /\ xy[2] < rc[2] + SpanOf(CellAt(table, rc[1], rc[2]))[2]}

\* the cells carrying a positive span
Anchors(table) ==
    {rc \in CellsOf(table) : SpanOf(CellAt(table, rc[1], rc[2])) # <<0, 0>>}

GridConsistent(table) ==
    /\ \A rc \in CellsOf(table) \ Anchors(table) :
          /\ Cardinality({a \in Anchors(table) : rc \in Covered(table, a)}) = 1
          /\ CellText(CellAt(table, rc[1], rc[2])) = <<>>
    /\ \A a \in Anchors(table), b \in Anchors(table) :
          a # b => Covered(table, a) \cap Covered(table, b) = {}

\* C13 (as claimed): after any sequence of merges and splits every table of
\* the saved document is consistent: each (0,0) cell lies in the rectangle of
\* exactly one anchor and is empty, and no two anchors' rectangles overlap.
MergedRegionsConsistent ==
    \A t \in 1..Len(iter_tables(file)) : GridConsistent(iter_tables(file)[t])

\* the table with every span element reset to (1,1)
Unmerged(table) ==
    [r \in 1..Len(table) |-> [c \in 1..Len(table[r]) |->
        IF table[r][c].span = None THEN table[r][c]
        ELSE [table[r][c] EXCEPT !.span = Some(<<1, 1>>)]]]

\* table is what merging the rectangle (r1, c1)-(r2, c2) of an unmerged table
\* gives
IsMergedAt(table, r1, c1, r2, c2) ==
    /\ InBounds(table, r1, c1, r2, c2)
    /\ \A merged \in {merge_cells_in_table(<< <<ParagraphOfTable(Unmerged(table))>> >>,
                                            0, r1, c1, r2, c2)} :
          /\ merged.err = "none"
          /\ iter_tables(merged.doc)[1] = table

\* C14: merging an in-bounds rectangle of an unmerged table and then
\* splitting its top-left cell returns the span the merge had set, leaves
\* every cell of the rectangle with span (1,1), the anchor with the text it
\* held in the merged state and the other cells of the rectangle empty.
MergeSplitRoundTrip ==
    (/\ call.op = "split_table_cell"
     /\ call.table_index >= 0
     /\ call.table_index < Len(iter_tables(prev))
     /\ HasCell(iter_tables(prev)[call.table_index + 1], call.row, call.col)) =>
        LET before == iter_tables(prev)[call.table_index + 1]
            after == iter_tables(doc)[call.table_index + 1]
            span == SpanOf(CellAt(before, call.row, call.col))
            r2 == call.row + span[1] - 1
            c2 == call.col + span[2] - 1
        IN  IsMergedAt(before, call.row, call.col, r2, c2) =>
                /\ call.err = "none"
                /\ call.ret = [rowSpan |-> span[1], colSpan |-> span[2]]
                /\ CellsOf(after) = CellsOf(before)
                /\ \A rc \in CellsOf(after) :
                      IF /\ rc[1] >= call.row /\ rc[1] <= r2
                         /\ rc[2] >= call.col /\ rc[2] <= c2
                      THEN /\ SpanOf(CellAt(after, rc[1], rc[2])) = <<1, 1>>
                           /\ CellText(CellAt(after, rc[1], rc[2])) =
                                 IF rc = <<call.row, call.col>>
                                 THEN CellText(CellAt(before, rc[1], rc[2]))
                                 ELSE <<>>
                      ELSE CellAt(after, rc[1], rc[2]) = CellAt(before, rc[1], rc[2])

\* C14 witness: the whole two-by-two table was merged, its anchor was given
\* the text "x" while merged, and the anchor was split.
MergeSplitRoundTripWitness ==
    /\ call.op = "split_table_cell"
    /\ call.err = "none"
    /\ call.row = 0 /\ call.col = 0
    /\ call.ret = [rowSpan |-> 2, colSpan |-> 2]
    /\ IsMergedAt(iter_tables(prev)[1], 0, 0, 1, 1)
    /\ CellText(CellAt(iter_tables(prev)[1], 0, 0)) = <<"x">>
    /\ CellText(CellAt(iter_tables(doc)[1], 0, 0)) = <<"x">>
    /\ \A rc \in CellsOf(iter_tables(doc)[1]) :
          SpanOf(CellAt(iter_tables(doc)[1], rc[1], rc[2])) = <<1, 1>>

---------------------------------------------------------------------------
\* The search tool over documents of every bounded text.
InitFind ==
    /\ file \in InitFindDocs
    /\ doc = file
    /\ prev = file
    /\ call = [op |-> "none"]
    /\ runs = <<>>
    /\ rcall = NoRunCall
    /\ dist = NoDist
    /\ disk = NoDisk

NextFind == FindText

SpecFind == InitFind /\ [][NextFind]_vars

---------------------------------------------------------------------------
\* Properties of the search tool (SpecFind).

\* the matches of the scan when nothing caps it
ScanAll(d, text_to_find, match_case) ==
    FindLoop(Paragraphs(d), 0, 0, <<>>, text_to_find, match_case,
             Len(Join([i \in 1..Count(d) |-> ParaText(Paragraphs(d)[i])])) + 1)

\* match m comes before match n in document order
Earlier(m, n) ==
    \/ m.paragraph_index < n.paragraph_index
    \/ m.paragraph_index = n.paragraph_index /\ m.position < n.position

\* C15: for a non-empty needle and positive max_results, find returns exactly
\* min(max_results, matches of the uncapped scan) matches, the first ones in
\* document order; total_matches is the number returned; and once
\* max_results matches are collected nothing further is scanned: the last
\* haystack.find call is the one that found the last match.
SearchResultCap ==
    (/\ call.op = "find_text"
     /\ call.text_to_find # <<>>
     /\ call.max_results > 0) =>
        /\ call.err = "none"
        /\ \A all \in {ScanAll(prev, call.text_to_find, call.match_case)} :
           \A probes \in {FindProbes(Paragraphs(prev), 0, 0, 0, call.text_to_find,
                                      call.match_case, call.max_results)} :
              LET matches == call.ret.matches
                  n == Len(matches)
              IN  /\ n = Min(call.max_results, Len(all))
                  /\ matches = SubSeq(all, 1, n)
                  /\ \A i \in 1..(n - 1) : Earlier(matches[i], matches[i + 1])
                  /\ call.ret.total_matches = n
                  /\ n = call.max_results =>
                        /\ probes[Len(probes)][1] = matches[n].paragraph_index
                        /\ probes[Len(probes)][2] <= matches[n].position

\* C15 witness: "a" occurs five times ("aaa", then "aa"); with max_results 2
\* the search returns the two first and reports 2.
SearchResultCapWitness ==
    /\ call.op = "find_text"
    /\ call.text_to_find = <<"a">>
    /\ call.match_case
    /\ call.max_results = 2
    /\ ParaText(Paragraphs(prev)[1]) = <<"a", "a", "a">>
    /\ ParaText(Paragraphs(prev)[2]) = <<"a", "a">>
    /\ Len(ScanAll(prev, <<"a">>, TRUE)) = 5
    /\ call.ret.total_matches = 2
    /\ call.ret.matches[2].paragraph_index = 0
    /\ call.ret.matches[2].position = 1

\* the text the scan compares in: the paragraph text, lowered when the case
\* is ignored
Folded(s, match_case) == IF match_case THEN s ELSE Lower(s)

\* C16: the matches of a paragraph are the leftmost non-overlapping
\* occurrences: every position is an occurrence of the needle under the case
\* mode, consecutive positions of a paragraph differ by at least
\* max(1, len(needle)), and an occurrence that is not reported either
\* overlaps a reported match or comes after the match that filled the cap.
LeftmostNonOverlapping ==
    (call.op = "find_text" /\ call.err = "none") =>
        LET matches == call.ret.matches
            n == Len(matches)
            needle == Folded(call.text_to_find, call.match_case)
            step == Max(1, Len(needle))
            haystack(i) == Folded(ParaText(Paragraphs(prev)[i + 1]), call.match_case)
        IN  /\ \A k \in 1..n :
                  /\ matches[k].paragraph_index \in 0..(Count(prev) - 1)
                  /\ StartsAt(haystack(matches[k].paragraph_index), needle,
                              matches[k].position)
            /\ \A k \in 1..(n - 1) :
                  \/ matches[k].paragraph_index < matches[k + 1].paragraph_index
                  \/ /\ matches[k].paragraph_index = matches[k + 1].paragraph_index
                     /\ matches[k + 1].position >= matches[k].position + step
            /\ \A i \in 0..(Count(prev) - 1) : \A q \in 0..Len(haystack(i)) :
                  StartsAt(haystack(i), needle, q) =>
                      \/ \E k \in 1..n : /\ matches[k].paragraph_index = i
                                          /\ matches[k].position <= q
                                          /\ q < matches[k].position + step
                      \/ /\ n >= call.max_results
                         /\ Earlier(matches[n], [paragraph_index |-> i, position |-> q])

\* C16 witness: "aa" in "aaa" matches at 0 only (the occurrence at 1 overlaps
\* it), then at 0 in the next paragraph "aa"; the case is ignored.
LeftmostNonOverlappingWitness ==
    /\ call.op = "find_text"
    /\ call.err = "none"
    /\ call.text_to_find = <<"a", "a">>
    /\ ~call.match_case
    /\ call.max_results = DefaultMaxResults
    /\ ParaText(Paragraphs(prev)[1]) = <<"a", "A", "a">>
    /\ Len(call.ret.matches) = 2
    /\ call.ret.matches[1].position = 0
    /\ call.ret.matches[2].paragraph_index = 1

\* the table a table tool addresses, in the document it was read from
Addressed == iter_tables(prev)[call.table_index + 1]

\* the indices of a table tool call are outside the bounds at hand: the table
\* index, a row or column of the addressed cell or of a cell of the addressed
\* rectangle, or a start after its end
IndexViolation ==
    \/ call.table_index < 0
    \/ call.table_index >= Len(iter_tables(prev))
    \/ /\ call.op \in {"set_table_cell_text", "split_table_cell"}
       /\ ~HasCell(Addressed, call.row, call.col)
    \/ /\ call.op = "merge_table_cells"
       /\ ~InBounds(Addressed, call.start_row, call.start_col, call.end_row, call.end_col)

\* C17 (as claimed): a table operation whose table, row or column index is
\* out of bounds, or whose start is after its end, raises and leaves the
\* document exactly as it was before the call.
IndexValidationPrecedesMutation ==
    (/\ call.op \in {"set_table_cell_text", "merge_table_cells", "split_table_cell"}
     /\ IndexViolation) =>
        /\ call.err # "none"
        /\ doc = prev

---------------------------------------------------------------------------
\* Error kinds.

\* a document with one paragraph and a one-cell table whose cell has no
\* cellSpan element
ProbeDoc ==
    << <<NewParagraph(<<"a">>, None, FALSE),
         ParagraphOfTable(<< <<CellWithoutSpan(<<"a">>)>> >>)>> >>

\* the kinds raised for each trigger of the error taxonomy
KindsOf(category) ==
    CASE category = "IndexRange" ->
            {insert_paragraph_to_doc(ProbeDoc, -1, <<>>, None).err,
             delete_paragraph_from_doc(ProbeDoc, 2).err,
             set_cell_text(ProbeDoc, 1, 0, 0, <<>>).err,
             split_cell_in_table(ProbeDoc, 0, 1, 0).err,
             merge_cells_in_table(ProbeDoc, 0, 0, 0, 0, 1).err,
             merge_cells_in_table(ProbeDoc, 0, 1, 0, 0, 0).err}
      [] category = "InvalidArgument" ->
            {find_in_doc(ProbeDoc, <<>>, TRUE, DefaultMaxResults).err,
             replace_in_doc(ProbeDoc, <<>>, <<>>).err,
             add_table_to_doc(ProbeDoc, 0, 1, <<>>).err,
             add_table_to_doc(ProbeDoc, 1, 0, <<>>).err}
      [] category = "NotFound" ->
            {merge_cells_in_table(ProbeDoc, 0, 0, 0, 0, 0).err}

\* the trigger of the failure of the last call
Category ==
    IF call.op \in {"add_table", "find_text", "search_and_replace", "batch_replace"}
    THEN "InvalidArgument"
    ELSE IF call.err = "RuntimeError" THEN "NotFound"
    ELSE "IndexRange"

\* C18 (as claimed): index-range, invalid-argument and not-found failures are
\* raised as three different kinds: the kind of a failed call is raised for
\* no trigger of another category.
ErrorKindsDistinct ==
    (call.op # "none" /\ call.err # "none") =>
        /\ call.err \in KindsOf(Category)
        /\ \A other \in {"IndexRange", "InvalidArgument", "NotFound"} \ {Category} :
              call.err \notin KindsOf(other)

---------------------------------------------------------------------------
\* save_doc step by step: the copy to .bak, then doc.save, each of which can
\* fail or be cut short after it has begun to write.

\* a container that was not written to its end: no document can be read
Torn == <<>>

\* AUTOBACKUP: the environment variable HWPX_MCP_AUTOBACKUP, read at import
AUTOBACKUP == BOOLEAN

\* save_doc on an existing path: shutil.copy2(path, path + ".bak") when
\* AUTOBACKUP is set, then doc.save(path)
SaveSteps(autobackup) ==
    IF autobackup THEN <<"copy", "write">> ELSE <<"write">>

\* Mutant of ReachesSave: save_doc runs whatever the core operation did.
ReachesSaveAlways(err) == TRUE

\* the statement after the core operation is reached only when it returned
ReachesSave(err) == err = "none"

\* open_doc: a torn container cannot be parsed
open_doc(f, outcome) == IF f = Torn THEN Raise(f, "OpenError") ELSE outcome

\* a tool up to its save_doc call
ToolBody(request, outcome) ==
    /\ disk.save # "running"
    /\ prev' = file
    /\ doc' = outcome.doc
    /\ call' = request @@ [ret |-> outcome.ret, err |-> outcome.err]
    /\ disk' = [disk EXCEPT !.old_bak = disk.bak,
                            !.save = IF ReachesSave(outcome.err) THEN "running" ELSE "none",
                            !.steps = IF ReachesSave(outcome.err)
                                      THEN SaveSteps(disk.autobackup) ELSE <<>>,
                            !.started = FALSE]
    /\ UNCHANGED <<file, runs, rcall, dist>>

SearchAndReplaceBody ==
    \E find_text \in FindInputs, replace_text \in ReplaceInputs :
        \E outcome \in {open_doc(file, IF file = Torn THEN None
                                        ELSE replace_in_doc(file, find_text, replace_text))} :
           ToolBody([op |-> "search_and_replace", find |-> find_text,
                     replace |-> replace_text], outcome)

\* the replacements of a batch_replace request: one that applies and one
\* whose empty find string makes the call fail
SaveBatchItems == {[find |-> <<"a">>, replace |-> <<"b">>],
                   [find |-> <<>>, replace |-> <<"c">>]}

BatchReplaceBody ==
    \E replacements \in SeqsUpTo(SaveBatchItems, MaxBatch) :
        \E outcome \in {open_doc(file, IF file = Torn THEN None
                                        ELSE batch_replace_in_doc(file, replacements))} :
           ToolBody([op |-> "batch_replace", replacements |-> replacements], outcome)

\* blank_document_bytes: the library's template, one section holding one
\* empty paragraph
BlankDocument == << <<NewParagraph(<<>>, None, FALSE)>> >>

\* create_document: create_blank writes the template to the path with
\* doc.save, whether or not a file is there, and does not call save_doc
CreateDocument ==
    /\ disk.save # "running"
    /\ prev' = file
    /\ doc' = BlankDocument
    /\ call' = [op |-> "create_document", ret |-> TRUE, err |-> "none"]
    /\ disk' = [disk EXCEPT !.old_bak = disk.bak, !.save = "running",
                            !.steps = <<"write">>, !.started = FALSE]
    /\ UNCHANGED <<file, runs, rcall, dist>>

\* the write to disk that is next or under way
Step == Head(disk.steps)

\* the position after the step under way has completed
Advance ==
    [disk EXCEPT !.steps = Tail(@), !.started = FALSE,
                 !.save = IF Len(disk.steps) > 1 THEN "running" ELSE "done"]

\* shutil.copy2 has opened path + ".bak" for writing
CopyStart ==
    /\ disk.save = "running" /\ Step = "copy" /\ ~disk.started
    /\ disk' = [disk EXCEPT !.bak = Some(Torn), !.started = TRUE]
    /\ UNCHANGED <<file, doc, prev, call, runs, rcall, dist>>

\* shutil.copy2 has returned
CopyFinish ==
    /\ disk.save = "running" /\ Step = "copy" /\ disk.started
    /\ disk' = [Advance EXCEPT !.bak = Some(file)]
    /\ UNCHANGED <<file, doc, prev, call, runs, rcall, dist>>

\* doc.save has opened path for writing
WriteStart ==
    /\ disk.save = "running" /\ Step = "write" /\ ~disk.started
    /\ file' = Torn
    /\ disk' = [disk EXCEPT !.started = TRUE]
    /\ UNCHANGED <<doc, prev, call, runs, rcall, dist>>

\* doc.save has returned
WriteFinish ==
    /\ disk.save = "running" /\ Step = "write" /\ disk.started
    /\ file' = save_doc(doc)
    /\ disk' = Advance
    /\ UNCHANGED <<doc, prev, call, runs, rcall, dist>>

\* the step next or under way raises, or the process is stopped
SaveFails ==
    /\ disk.save = "running"
    /\ disk' = [disk EXCEPT !.save = "failed", !.steps = <<>>, !.started = FALSE]
    /\ call' = [call EXCEPT !.err = "OSError"]
    /\ UNCHANGED <<file, doc, prev, runs, rcall, dist>>

InitSave ==
    /\ file \in InitReplaceDocs
    /\ doc = file
    /\ prev = file
    /\ call = [op |-> "none"]
    /\ runs = <<>>
    /\ rcall = NoRunCall
    /\ dist = NoDist
    /\ \E autobackup \in AUTOBACKUP :
          disk = [autobackup |-> autobackup, bak |-> None, old_bak |-> None,
                  save |-> "none", steps |-> <<>>, started |-> FALSE]

NextSave ==
    \/ SearchAndReplaceBody
    \/ BatchReplaceBody
    \/ CreateDocument
    \/ CopyStart
    \/ CopyFinish
    \/ WriteStart
    \/ WriteFinish
    \/ SaveFails

SpecSave == InitSave /\ [][NextSave]_vars

\* C19: a tool call whose validation or mutation raises never reaches
\* save_doc: the file and its .bak are what they were before the call, even
\* when the document in memory was already partly rewritten.
FailedCallKeepsFile ==
    (call.op # "none" /\ call.err \notin {"none", "OSError"}) =>
        /\ disk.save = "none"
        /\ file = prev
        /\ disk.bak = disk.old_bak

\* C19 witness: a batch whose second pair is invalid has rewritten the
\* document in memory; the file is the one the call opened.
FailedCallKeepsFileWitness ==
    /\ call.op = "batch_replace"
    /\ call.err = "ValueError"
    /\ Len(call.replacements) = 2
    /\ doc # prev
    /\ file = prev
    /\ disk.save = "none"

\* C20: with auto-backup on, from the moment a write to an existing,
\* complete file begins onwards, the file or its .bak holds the complete
\* content the file had before that write, whether the write is under way,
\* has completed or has failed.
BackupPrecedesWrite ==
    (disk.autobackup /\ disk.save \in {"running", "done", "failed"} /\ prev # Torn) =>
        file = prev \/ disk.bak = Some(prev)

\* the same, of the saves that go through save_doc only
BackupPrecedesWriteInSaveDoc ==
    call.op # "create_document" => BackupPrecedesWrite

---------------------------------------------------------------------------
\* Two requests served at once.  In this specification disk holds the files
\* by path (files: now, start: when the requests arrived), call the two
\* requests and doc the document tree each request holds.

\* path + ".bak"
BakPath(path) == path \o <<".bak">>

\* the paths a request names
RequestPaths == {<<"f">>, <<"g">>, <<"f", ".bak">>}

\* the paths a request can read or write
AllPaths == RequestPaths \cup {BakPath(path) : path \in RequestPaths}

Requests == {1, 2}

\* the find / replace arguments of the requests
ConcurrentEdits == {[find |-> <<"a">>, replace |-> <<"c">>],
                    [find |-> <<"b">>, replace |-> <<>>]}

\* Mutant of TreeOf: the parsed tree is kept in one place for all requests.
TreeOfShared(id) == 1

\* doc = open_doc(path): the tree is a local of the request's own frame
TreeOf(id) == id

Idle == [pc |-> "idle", err |-> "none"]

\* path = resolve_path(filename); doc = open_doc(path)
OpenStep(id) ==
    /\ call[id].pc = "idle"
    /\ \E path \in RequestPaths, edit \in ConcurrentEdits :
          IF disk.files[path] = None
          THEN /\ call' = [call EXCEPT ![id] = [pc |-> "done", err |-> "FileNotFoundError",
                                                path |-> path, edit |-> edit]]
               /\ UNCHANGED doc
          ELSE /\ call' = [call EXCEPT ![id] = [pc |-> "opened", err |-> "none",
                                                path |-> path, edit |-> edit]]
               /\ doc' = [doc EXCEPT ![TreeOf(id)] = disk.files[path][1]]
    /\ UNCHANGED <<file, prev, runs, rcall, dist, disk>>

\* replaced_count = replace_in_doc(doc, find_text, replace_text)
MutateStep(id) ==
    /\ call[id].pc = "opened"
    /\ \E outcome \in {replace_in_doc(doc[TreeOf(id)], call[id].edit.find,
                                      call[id].edit.replace)} :
          /\ doc' = [doc EXCEPT ![TreeOf(id)] = outcome.doc]
          /\ call' = [call EXCEPT ![id].pc = IF outcome.err = "none" THEN "mutated" ELSE "done",
                                  ![id].err = outcome.err]
    /\ UNCHANGED <<file, prev, runs, rcall, dist, disk>>

\* save_doc: if AUTOBACKUP and os.path.exists(path): shutil.copy2(path, path + ".bak")
BackupStep(id) ==
    /\ call[id].pc = "mutated"
    /\ disk' = IF disk.autobackup /\ disk.files[call[id].path] # None
               THEN [disk EXCEPT !.files[BakPath(call[id].path)] = disk.files[call[id].path]]
               ELSE disk
    /\ call' = [call EXCEPT ![id].pc = "copied"]
    /\ UNCHANGED <<file, doc, prev, runs, rcall, dist>>

\* save_doc: doc.save(path)
WriteStep(id) ==
    /\ call[id].pc = "copied"
    /\ disk' = [disk EXCEPT !.files[call[id].path] = Some(save_doc(doc[TreeOf(id)]))]
    /\ call' = [call EXCEPT ![id].pc = "done"]
    /\ UNCHANGED <<file, doc, prev, runs, rcall, dist>>

InitConcurrent ==
    /\ file = None
    /\ prev = None
    /\ doc = [id \in Requests |-> None]
    /\ call = [id \in Requests |-> Idle]
    /\ runs = <<>>
    /\ rcall = NoRunCall
    /\ dist = NoDist
    /\ \E autobackup \in AUTOBACKUP, f \in InitReplaceDocs, g \in InitReplaceDocs,
          b \in {None} \cup {Some(d) : d \in InitReplaceDocs} :
          \E files \in {[path \in AllPaths |->
                            IF path = <<"f">> THEN Some(f)
                            ELSE IF path = <<"g">> THEN Some(g)
                            ELSE IF path = <<"f", ".bak">> THEN b
                            ELSE None]} :
             disk = [autobackup |-> autobackup, files |-> files, start |-> files]

NextConcurrent ==
    \E id \in Requests :
        \/ OpenStep(id)
        \/ MutateStep(id)
        \/ BackupStep(id)
        \/ WriteStep(id)

SpecConcurrent == InitConcurrent /\ [][NextConcurrent]_vars

\* a whole request run alone on the files: open, mutate, copy, write
RunAlone(files, autobackup, path, edit) ==
    IF files[path] = None THEN files
    ELSE LET outcome == replace_in_doc(files[path][1], edit.find, edit.replace)
             copied == IF autobackup
                       THEN [files EXCEPT ![BakPath(path)] = files[path]]
                       ELSE files
         IN  IF outcome.err # "none" THEN files
             ELSE [copied EXCEPT ![path] = Some(outcome.doc)]

\* the two requests one after the other, first then second
OneAfterTheOther(first, second) ==
    RunAlone(RunAlone(disk.start, disk.autobackup, call[first].path, call[first].edit),
             disk.autobackup, call[second].path, call[second].edit)

BothDone == \A id \in Requests : call[id].pc = "done"

\* neither request names the other's backup file
NoBackupAlias ==
    /\ call[1].path # BakPath(call[2].path)
    /\ call[2].path # BakPath(call[1].path)

\* C21 as stated: when two requests on different files have both finished,
\* whatever the interleaving of their steps, each of the two files holds what
\* it holds after running the two requests one after the other, in one of the
\* two orders.
RequestsDoNotInterfere ==
    (BothDone /\ call[1].path # call[2].path) =>
        \E serial \in {OneAfterTheOther(1, 2), OneAfterTheOther(2, 1)} :
            \A id \in Requests : disk.files[call[id].path] = serial[call[id].path]

\* C21 amended: the same when, besides, neither file is the other's .bak:
\* then each file and each .bak holds what it holds after the two requests run
\* one after the other, in either order.
RequestsOnUnrelatedFilesDoNotInterfere ==
    (BothDone /\ call[1].path # call[2].path /\ NoBackupAlias) =>
        \A serial \in {OneAfterTheOther(1, 2), OneAfterTheOther(2, 1)} :
            \A id \in Requests :
                /\ disk.files[call[id].path] = serial[call[id].path]
                /\ disk.files[BakPath(call[id].path)] = serial[BakPath(call[id].path)]

\* C21 witness: two requests on unrelated files have both saved an edit that
\* changed their file, with backups taken.
RequestsDoNotInterfereWitness ==
    /\ BothDone
    /\ call[1].path # call[2].path
    /\ NoBackupAlias
    /\ disk.autobackup
    /\ \A id \in Requests :
          /\ call[id].err = "none"
          /\ disk.files[call[id].path] # disk.start[call[id].path]
          /\ disk.files[BakPath(call[id].path)] = disk.start[call[id].path]

---------------------------------------------------------------------------
\* The style table of the document header.  In this specification file, doc
\* and prev hold the header's style elements in order, each with its id and
\* its name.

MaxStyles == 3

\* a style element of the header
StyleElement(id, name) == [id |-> id, name |-> name]

\* list_styles_in_doc: one entry per style element, in order
list_styles_in_doc(styles) ==
    [i \in 1..Len(styles) |-> [id |-> styles[i].id, name |-> styles[i].name]]

\* create_style_in_doc: the stripped name must not be empty; a style of that
\* name is left alone; otherwise the last style element takes the name
create_style_in_doc(styles, style_name) ==
    LET name == Strip(style_name)
    IN  IF name = <<>>
        THEN Raise(styles, "ValueError")
        ELSE IF \E i \in 1..Len(styles) : styles[i].name = name
        THEN Ok(styles, None)
        ELSE IF styles = <<>>
        THEN Raise(styles, "RuntimeError")
        ELSE Ok([styles EXCEPT ![Len(styles)].name = name], None)

StyleNames == {<<>>, <<" ">>, <<"s">>, <<" ", "s">>, <<"n">>, <<"m">>}

CreateCustomStyle ==
    \E style_name \in StyleNames :
        \E outcome \in {create_style_in_doc(file, style_name)} :
           Tool([op |-> "create_custom_style", style_name |-> style_name], outcome, TRUE)

ListStyles ==
    \E outcome \in {Ok(file, list_styles_in_doc(file))} :
       Tool([op |-> "list_styles"], outcome, FALSE)

\* the names the styles of a file carry
InitStyleNames == {<<"s">>, <<"t">>}

\* style tables of up to MaxStyles elements with ids 0, 1, ..., among them a
\* header that holds no style element
InitStyleTables ==
    {[i \in 1..Len(names) |-> StyleElement(i - 1, names[i])] :
        names \in SeqsUpTo(InitStyleNames, MaxStyles)}

InitStyles ==
    /\ file \in InitStyleTables
    /\ doc = file
    /\ prev = file
    /\ call = [op |-> "none"]
    /\ runs = <<>>
    /\ rcall = NoRunCall
    /\ dist = NoDist
    /\ disk = NoDisk

NextStyles ==
    \/ CreateCustomStyle
    \/ ListStyles

SpecStyles == InitStyles /\ [][NextStyles]_vars

\* the names in a style table
NamesOf(styles) == {styles[i].name : i \in 1..Len(styles)}

\* C22: a create_custom_style call that returned, with a name no style of
\* the table had, leaves one style more than before, and every style that was
\* there keeps the name it had under its id.
CreateStyleAddsOne ==
    (/\ call.op = "create_custom_style"
     /\ call.err = "none"
     /\ Strip(call.style_name) \notin NamesOf(prev)) =>
        \A before \in {list_styles_in_doc(prev)}, after \in {list_styles_in_doc(file)} :
            /\ Len(after) = Len(before) + 1
            /\ \A i \in 1..Len(before) :
                  \E j \in 1..Len(after) :
                     after[j].id = before[i].id /\ after[j].name = before[i].name

---------------------------------------------------------------------------
\* Memos.  In this specification file, doc and prev are a document seen as
\* its paragraphs, each a sequence of runs (text runs and the runs that hold
\* a fieldBegin or fieldEnd control), and the entries of its memo group.

MaxMemos == 2

TextRun(text) == [kind |-> "text", text |-> text]

\* run_begin: a run whose ctrl holds a fieldBegin of type MEMO; memo is what
\* _extract_memo_id_from_field_begin finds in it (None: no memo id)
FieldBeginRun(field, memo) == [kind |-> "fieldBegin", field |-> field, memo |-> memo]

\* run_end: a run whose ctrl holds the fieldEnd of that field
FieldEndRun(field) == [kind |-> "fieldEnd", field |-> field]

\* a memo element of the memo group
Memo(id, text) == [id |-> id, text |-> text]

\* every run of the document
AllRuns(d) ==
    UNION {{d.paragraphs[p][k] : k \in 1..Len(d.paragraphs[p])} :
              p \in 1..Len(d.paragraphs)}

\* the ids uuid4 can give: those the document does not hold yet
FreshMemoIds(d) ==
    (1..MaxMemos) \ ({d.memos[i].id : i \in 1..Len(d.memos)}
                     \cup {r.memo[1] : r \in {s \in AllRuns(d) :
                                s.kind = "fieldBegin" /\ s.memo # None}})

FreshFieldIds(d) ==
    (1..MaxMemos) \ {r.field : r \in {s \in AllRuns(d) : s.kind # "text"}}

\* _add_memo_with_anchor_fallback: a memo element appended to the memo group,
\* run_begin inserted first in the paragraph and run_end appended
add_memo_with_anchor(d, position, text, memo_id, field_id) ==
    [paragraphs |-> [d.paragraphs EXCEPT ![position] =
                        <<FieldBeginRun(field_id, Some(memo_id))>> \o @
                        \o <<FieldEndRun(field_id)>>],
     memos |-> Append(d.memos, Memo(memo_id, text))]

add_memo_to_doc(d, paragraph_index, text, memo_id, field_id) ==
    IF paragraph_index < 0 \/ paragraph_index >= Len(d.paragraphs)
    THEN Raise(d, "ValueError")
    ELSE Ok(add_memo_with_anchor(d, paragraph_index + 1, text, memo_id, field_id), None)

\* the memo ids of the fieldBegin controls of a paragraph's runs
MemoIdsOf(paragraph) ==
    {paragraph[k].memo[1] : k \in {j \in 1..Len(paragraph) :
        paragraph[j].kind = "fieldBegin" /\ paragraph[j].memo # None}}

\* remove_memo_from_doc: every memo of the group whose id a fieldBegin of the
\* paragraph carries is removed from the group
remove_memo_from_doc(d, paragraph_index) ==
    IF paragraph_index < 0 \/ paragraph_index >= Len(d.paragraphs)
    THEN Raise(d, "ValueError")
    ELSE LET memo_ids == MemoIdsOf(d.paragraphs[paragraph_index + 1])
         IN  Ok([d EXCEPT !.memos = SelectSeq(@, LAMBDA memo : memo.id \notin memo_ids)],
                None)

MemoTexts == {<<>>, <<"m">>}

AddMemo ==
    \E paragraph_index \in (-1)..Len(file.paragraphs), text \in MemoTexts :
        \E memo_id \in FreshMemoIds(file), field_id \in FreshFieldIds(file) :
            \E outcome \in {add_memo_to_doc(file, paragraph_index, text, memo_id, field_id)} :
               Tool([op |-> "add_memo", paragraph_index |-> paragraph_index,
                     text |-> text], outcome, TRUE)

RemoveMemo ==
    \E paragraph_index \in (-1)..Len(file.paragraphs) :
        \E outcome \in {remove_memo_from_doc(file, paragraph_index)} :
           Tool([op |-> "remove_memo", paragraph_index |-> paragraph_index],
                outcome, TRUE)

\* documents of one or two paragraphs without memos, and one whose paragraph
\* carries a fieldBegin that names no memo
InitMemoDocs ==
    {[paragraphs |-> << <<TextRun(<<"a">>)>> >>, memos |-> <<>>],
     [paragraphs |-> << <<TextRun(<<"a">>)>>, <<TextRun(<<"b">>), TextRun(<<"c">>)>> >>,
      memos |-> <<>>],
     [paragraphs |-> << <<FieldBeginRun(1, None), TextRun(<<"a">>), FieldEndRun(1)>>,
                        <<TextRun(<<"b">>)>> >>,
      memos |-> <<>>]}

InitMemo ==
    /\ file \in InitMemoDocs
    /\ doc = file
    /\ prev = file
    /\ call = [op |-> "none"]
    /\ runs = <<>>
    /\ rcall = NoRunCall
    /\ dist = NoDist
    /\ disk = NoDisk

NextMemo ==
    \/ AddMemo
    \/ RemoveMemo

SpecMemo == InitMemo /\ [][NextMemo]_vars

\* the runs of a paragraph that belong to the anchors of the given memos:
\* their fieldBegin runs and the fieldEnd runs of the same fields
AnchorRuns(paragraph, memo_ids) ==
    LET begins == {k \in 1..Len(paragraph) :
                      /\ paragraph[k].kind = "fieldBegin"
                      /\ paragraph[k].memo # None
                      /\ paragraph[k].memo[1] \in memo_ids}
        fields == {paragraph[k].field : k \in begins}
    IN  begins \cup {k \in 1..Len(paragraph) :
                        paragraph[k].kind = "fieldEnd" /\ paragraph[k].field \in fields}

\* C23: after a remove_memo call that returned, for every memo id a
\* fieldBegin of the paragraph carried, the memo group has no entry of that id
\* and the paragraph has no fieldBegin or fieldEnd run of that memo left.
RemoveMemoDestroysMemo ==
    (call.op = "remove_memo" /\ call.err = "none") =>
        \A memo_ids \in {MemoIdsOf(prev.paragraphs[call.paragraph_index + 1])} :
            /\ \A i \in 1..Len(file.memos) : file.memos[i].id \notin memo_ids
            /\ AnchorRuns(file.paragraphs[call.paragraph_index + 1], memo_ids) = {}

\* the part of C23 about the memo group alone
RemoveMemoEmptiesGroup ==
    (call.op = "remove_memo" /\ call.err = "none") =>
        \A i \in 1..Len(file.memos) :
            file.memos[i].id \notin MemoIdsOf(prev.paragraphs[call.paragraph_index + 1])

---------------------------------------------------------------------------
\* Table indices: the enumeration add_table, get_table_text and
\* set_table_cell_text use, and the count get_document_info reports.  A cell
\* read from a file may hold tables of its own, in its field tables.

\* a cell whose paragraph anchors a table
CellWithTable(text, table) ==
    [runs |-> <<text>>, span |-> Some(<<1, 1>>), tables |-> <<table>>]

\* the tables a cell holds
NestedTables(cell) == IF "tables" \in DOMAIN cell THEN cell.tables ELSE <<>>

RECURSIVE TblElements(_)
\* the number of tbl elements of a table's subtree: itself and those in its cells
TblElements(table) ==
    1 + SumSeq([r \in 1..Len(table) |->
                  SumSeq([c \in 1..Len(table[r]) |->
                            SumSeq([k \in 1..Len(NestedTables(table[r][c])) |->
                                      TblElements(NestedTables(table[r][c])[k])])])])

\* _table_count: every tbl element of every section's tree
table_count(d) ==
    SumSeq([i \in 1..Len(Paragraphs(d)) |->
              SumSeq([k \in 1..Len(Paragraphs(d)[i].tables) |->
                        TblElements(Paragraphs(d)[i].tables[k])])])

\* get_table_data: the cell texts of the table at table_index, row by row
get_table_data(d, table_index) ==
    LET tables == iter_tables(d)
    IN  IF table_index < 0 \/ table_index >= Len(tables)
        THEN Raise(d, "ValueError")
        ELSE LET table == tables[table_index + 1]
                 data == [r \in 1..Len(table) |->
                            [c \in 1..Len(table[r]) |-> CellText(table[r][c])]]
             IN  Ok(d, [rows |-> Len(data),
                        cols |-> IF data = <<>> THEN 0 ELSE Len(data[1]),
                        data |-> data])

GetDocumentInfo ==
    \E outcome \in {Ok(file, [paragraphs |-> Count(file), tables |-> table_count(file)])} :
       Tool([op |-> "get_document_info"], outcome, FALSE)

GetTableText ==
    \E table_index \in TableIndices(file, TRUE) :
        \E outcome \in {get_table_data(file, table_index)} :
           Tool([op |-> "get_table_text", table_index |-> table_index], outcome, FALSE)

\* documents the table-index specification starts from: a document without
\* tables, one with a table, and one whose table holds a table in a cell
InitTableIndexDocs ==
    {<< <<NewParagraph(<<"a">>, None, FALSE)>> >>,
     << <<ParagraphOfTable(<< <<CellWithText(<<"c">>)>> >>)>> >>,
     << <<ParagraphOfTable(<< <<CellWithTable(<<"c">>, << <<CellWithText(<<"d">>)>> >>)>> >>)>> >>}

InitTableIndex ==
    /\ file \in InitTableIndexDocs
    /\ doc = file
    /\ prev = file
    /\ call = [op |-> "none"]
    /\ runs = <<>>
    /\ rcall = NoRunCall
    /\ dist = NoDist
    /\ disk = NoDisk

NextTableIndex ==
    \/ AddTable
    \/ AddParagraph
    \/ SetTableCellText
    \/ GetDocumentInfo
    \/ GetTableText

SpecTableIndex == InitTableIndex /\ [][NextTableIndex]_vars

\* the cell texts add_table was asked to build: data clipped to the grid,
\* the cells without data empty
Requested(rows, cols, data) ==
    [r \in 1..rows |-> [c \in 1..cols |->
        IF r <= Len(data) /\ c <= Len(data[r]) THEN data[r][c] ELSE <<>>]]

\* C24: the index an add_table call returned is the table count of
\* get_document_info after the addition minus one, and get_table_text at
\* that index reads the table that was just added.
TableIndexConsistent ==
    (call.op = "add_table" /\ call.err = "none") =>
        /\ call.ret = table_count(file) - 1
        /\ \A read \in {get_table_data(file, call.ret)} :
              /\ read.err = "none"
              /\ read.ret.data = Requested(call.rows, call.cols, call.data)

\* the part of C24 about addressing alone
TableIndexAddressesNewTable ==
    (call.op = "add_table" /\ call.err = "none") =>
        \A read \in {get_table_data(file, call.ret)} :
            /\ read.err = "none"
            /\ read.ret.data = Requested(call.rows, call.cols, call.data)

---------------------------------------------------------------------------
\* Reading one paragraph.

\* doc.paragraphs[paragraph_index] on a Python list: an index below zero
\* counts from the end, and IndexError is raised outside -len .. len - 1
ListIndex(length, index) ==
    IF 0 <= index /\ index < length THEN Some(index + 1)
    ELSE IF index < 0 /\ index >= -length THEN Some(length + index + 1)
    ELSE None

\* get_paragraph_text: IndexError becomes ValueError
get_paragraph_text(d, paragraph_index) ==
    LET position == ListIndex(Count(d), paragraph_index)
    IN  IF position = None
        THEN Raise(d, "ValueError")
        ELSE Ok(d, [paragraph_index |-> paragraph_index,
                    text |-> ParaText(Paragraphs(d)[position[1]])])

GetParagraphText ==
    \E paragraph_index \in (-(MaxParas + 1))..MaxParas :
        \E outcome \in {get_paragraph_text(file, paragraph_index)} :
           Tool([op |-> "get_paragraph_text", paragraph_index |-> paragraph_index],
                outcome, FALSE)

InitRead ==
    /\ file \in InitDocs \cup InitReplaceDocs \cup InitFindDocs
    /\ doc = file
    /\ prev = file
    /\ call = [op |-> "none"]
    /\ runs = <<>>
    /\ rcall = NoRunCall
    /\ dist = NoDist
    /\ disk = NoDisk

NextRead == GetParagraphText

SpecRead == InitRead /\ [][NextRead]_vars

\* C25 as stated: get_paragraph_text returns the text of the paragraph at
\* position paragraph_index when 0 <= paragraph_index < count, and raises the
\* index-range error for every other index.
ReadRejectsOutOfBounds ==
    call.op = "get_paragraph_text" =>
        IF 0 <= call.paragraph_index /\ call.paragraph_index < Count(file)
        THEN /\ call.err = "none"
             /\ call.ret.text = ParaText(Paragraphs(file)[call.paragraph_index + 1])
        ELSE call.err = "ValueError"

---------------------------------------------------------------------------
\* Headings and the outline.

\* a text shorter than this, without markup, is taken for a level-1 heading
OutlineMaxChars == 60

Digits == {"0", "1", "2", "3", "4", "5", "6", "7", "8", "9"}

\* str.isdigit(): not empty and digits only
IsDigit(s) == s # <<>> /\ \A i \in 1..Len(s) : s[i] \in Digits

\* s[:n]
Prefix(s, n) == SubSeq(s, 1, Min(n, Len(s)))

\* len(stripped) - len(stripped.lstrip("#"))
RECURSIVE LeadingSharps(_)
LeadingSharps(s) ==
    IF s # <<>> /\ Head(s) = "#" THEN 1 + LeadingSharps(Tail(s)) ELSE 0

\* _outline_level
outline_level(text) ==
    LET stripped == Strip(text)
    IN  IF stripped = <<>> THEN 0
        ELSE IF Head(stripped) = "#" THEN Min(6, LeadingSharps(stripped))
        ELSE IF IsDigit(Prefix(stripped, 2)) /\ Contains(Prefix(stripped, 6), <<".">>) THEN 2
        ELSE IF IsDigit(Prefix(stripped, 1)) /\ Contains(Prefix(stripped, 4), <<".">>) THEN 1
        ELSE IF Len(stripped) < OutlineMaxChars THEN 1 ELSE 0

\* get_document_outline: the paragraphs that have a level and a text
get_document_outline(d) ==
    LET paras == Paragraphs(d)
        entry(i) == [level |-> outline_level(Strip(ParaText(paras[i]))),
                     text |-> Strip(ParaText(paras[i])),
                     paragraph_index |-> i - 1]
    IN  SelectSeq([i \in 1..Len(paras) |-> entry(i)],
                  LAMBDA item : item.level > 0 /\ item.text # <<>>)

\* heading texts: plain, blank, numbered, and carrying markup of their own
OutlineTexts == {<<>>, <<" ", "a">>, <<"a", "#">>, <<"1", ".">>,
                 <<"#">>, <<" ", "#", "#", "a">>}

\* levels below, in and above 1..6
OutlineLevels == {-1, 1, 2, 6, 7}

AddHeadingText ==
    /\ Count(file) < MaxParas
    /\ \E text \in OutlineTexts, level \in OutlineLevels :
          \E outcome \in {add_heading_to_doc(file, text, level)} :
             Tool([op |-> "add_heading", text |-> text, level |-> level], outcome, TRUE)

GetDocumentOutline ==
    \E outcome \in {Ok(file, get_document_outline(file))} :
       Tool([op |-> "get_document_outline"], outcome, FALSE)

InitHeading ==
    /\ file \in InitDocs
    /\ doc = file
    /\ prev = file
    /\ call = [op |-> "none"]
    /\ runs = <<>>
    /\ rcall = NoRunCall
    /\ dist = NoDist
    /\ disk = NoDisk

NextHeading ==
    \/ AddHeadingText
    \/ GetDocumentOutline

SpecHeading == InitHeading /\ [][NextHeading]_vars

\* the outline entries of the paragraph at the index the call returned
OutlineEntriesAtRet ==
    {item \in {get_document_outline(file)[k] : k \in 1..Len(get_document_outline(file))} :
        item.paragraph_index = call.ret}

\* add_heading appended one paragraph as the last one and returned its index
HeadingAppended ==
    /\ Count(file) = Count(prev) + 1
    /\ call.ret = Count(prev)
    /\ SubSeq(Paragraphs(file), 1, Count(prev)) = Paragraphs(prev)

\* C26: add_heading appends one paragraph as the last one, returns its index,
\* and the outline reports that paragraph as a heading of the level clamped
\* into 1..6, whatever the text and the level.
HeadingRoundTrip ==
    (call.op = "add_heading" /\ call.err = "none") =>
        /\ HeadingAppended
        /\ \E item \in OutlineEntriesAtRet : item.level = Min(6, Max(1, call.level))

\* the same of the texts that do not begin with "#" once stripped
HeadingRoundTripOfPlainText ==
    (/\ call.op = "add_heading"
     /\ call.err = "none"
     /\ ~(Strip(call.text) # <<>> /\ Head(Strip(call.text)) = "#")) =>
        /\ HeadingAppended
        /\ \E item \in OutlineEntriesAtRet : item.level = Min(6, Max(1, call.level))

---------------------------------------------------------------------------
\* The weights of the cross-run phase.

\* the text lengths of a run list
Lengths(rs) == [i \in 1..Len(rs) |-> Len(rs[i])]

\* the run list as the within-run phase of the call left it
AfterWithin == replace_within_runs(rcall.before, rcall.find, rcall.replace).runs

\* C27 as stated: when the cross-run phase rewrites the run list, each run
\* gets the share of the new merged string that span arithmetic gives to the
\* length the run had before the replace operation made any edit.
WeightsArePreReplaceLengths ==
    (rcall.op = "replace" /\ rcall.rewrote) =>
        Lengths(runs) = distribute_lengths(Len(rcall.new_merged), Lengths(rcall.before))

\* C27 amended: each run gets the share span arithmetic gives to the length
\* the run has when the cross-run phase begins, the edits of the within-run
\* phase included.
WeightsAreLengthsAfterWithin ==
    (rcall.op = "replace" /\ rcall.rewrote) =>
        Lengths(runs) = distribute_lengths(Len(rcall.new_merged), Lengths(AfterWithin))

\* C27 witness: the within-run phase changed a run's length, the cross-run
\* phase ran, and the shares are not those of the lengths before the call.
WeightsAreLengthsAfterWithinWitness ==
    /\ rcall.op = "replace"
    /\ rcall.rewrote
    /\ rcall.within > 0
    /\ Lengths(AfterWithin) # Lengths(rcall.before)
    /\ Lengths(runs) # distribute_lengths(Len(rcall.new_merged), Lengths(rcall.before))

---------------------------------------------------------------------------
\* The largest-remainder rule.

\* floor(total * w_i / sum(weights)) of the call at hand
FloorShare(i) == (dist.total * dist.weights[i]) \div SumSeq(dist.weights)

\* total * w_i mod sum(weights) of the call at hand
Remainder(i) == (dist.total * dist.weights[i]) % SumSeq(dist.weights)

\* the units the floors leave
Leftover == dist.total - SumSeq([i \in 1..Len(dist.weights) |-> FloorShare(i)])

\* the entries that got more than their floor
Raised == {i \in 1..Len(dist.shares) : dist.shares[i] # FloorShare(i)}

\* C28: when total > 0 and some weight is positive, every entry is its floor
\* or its floor plus one; exactly total - sum(floors) entries get the extra
\* unit, and they come before all others by remainder descending, index
\* ascending; the loop leaves nothing for the last entry.
LargestRemainderRule ==
    (dist.done /\ dist.total > 0 /\ SumSeq(dist.weights) > 0) =>
        /\ \A i \in 1..Len(dist.shares) :
              dist.shares[i] \in {FloorShare(i), FloorShare(i) + 1}
        /\ Cardinality(Raised) = Leftover
        /\ \A i \in Raised : \A j \in (1..Len(dist.shares)) \ Raised :
              \/ Remainder(i) > Remainder(j)
              \/ (Remainder(i) = Remainder(j) /\ i < j)
        /\ LeftoverLoop([i \in 1..Len(dist.weights) |-> FloorShare(i)], Leftover, 0,
                        SortResiduals([i \in 1..Len(dist.weights) |-> Remainder(i)],
                                      1..Len(dist.weights))).remainder = 0

\* C28 witness: three entries whose remainders are 4, 5 and 5 and two units
\* left by the floors: the second and the third entry get them.
LargestRemainderRuleWitness ==
    /\ dist.done
    /\ dist.total = 4
    /\ dist.weights = <<1, 3, 3>>
    /\ dist.shares = <<0, 2, 2>>
    /\ Leftover = 2
    /\ Raised = {2, 3}

---------------------------------------------------------------------------
\* Formatting a range of a paragraph: format_text_range.  The character
\* format itself is not modelled (_apply_run_format writes back the reference
\* the run already has); the splitting of the runs is.

\* Mutant of the loop of format_text_range: the run that is cut keeps its
\* whole text, the clone takes the part after the cut.
RECURSIVE FormatLoopKeepsText(_, _, _, _, _)
FormatLoopKeepsText(rs, run_index, cursor, start_pos, end_pos) ==
    IF run_index >= Len(rs) THEN rs
    ELSE
        LET run_text == rs[run_index + 1]
            run_len == Len(run_text)
            run_end == cursor + run_len
            overlap_start == Max(start_pos, cursor)
            overlap_end == Min(end_pos, run_end)
            left_cut == overlap_start - cursor
            right_cut == run_end - overlap_end
            pieces == (IF left_cut > 0 THEN <<run_text>> ELSE <<>>)
                      \o <<Slice(run_text, left_cut, run_len - right_cut)>>
                      \o (IF right_cut > 0
                          THEN <<Slice(run_text, run_len - right_cut, run_len)>> ELSE <<>>)
        IN  IF run_len = 0
            THEN FormatLoopKeepsText(rs, run_index + 1, cursor, start_pos, end_pos)
            ELSE IF overlap_start >= overlap_end
            THEN FormatLoopKeepsText(rs, run_index + 1, run_end, start_pos, end_pos)
            ELSE FormatLoopKeepsText(
                    SubSeq(rs, 1, run_index) \o pieces \o SubSeq(rs, run_index + 2, Len(rs)),
                    run_index + (IF left_cut > 0 THEN 2 ELSE 1), run_end, start_pos, end_pos)

\* while run_index < len(paragraph.runs): a run that overlaps the range is
\* cut at the start and at the end of the overlap, the parts cut off becoming
\* clones inserted after it; the clone after the end is visited next, with
\* cursor at the end of the run that was cut
RECURSIVE FormatLoop(_, _, _, _, _)
FormatLoop(rs, run_index, cursor, start_pos, end_pos) ==
    IF run_index >= Len(rs) THEN rs
    ELSE
        LET run_text == rs[run_index + 1]
            run_len == Len(run_text)
            run_end == cursor + run_len
            overlap_start == Max(start_pos, cursor)
            overlap_end == Min(end_pos, run_end)
            left_cut == overlap_start - cursor
            right_cut == run_end - overlap_end
            pieces == (IF left_cut > 0 THEN <<Slice(run_text, 0, left_cut)>> ELSE <<>>)
                      \o <<Slice(run_text, left_cut, run_len - right_cut)>>
                      \o (IF right_cut > 0
                          THEN <<Slice(run_text, run_len - right_cut, run_len)>> ELSE <<>>)
        IN  IF run_len = 0
            THEN FormatLoop(rs, run_index + 1, cursor, start_pos, end_pos)
            ELSE IF overlap_start >= overlap_end
            THEN FormatLoop(rs, run_index + 1, run_end, start_pos, end_pos)
            ELSE FormatLoop(
                    SubSeq(rs, 1, run_index) \o pieces \o SubSeq(rs, run_index + 2, Len(rs)),
                    run_index + (IF left_cut > 0 THEN 2 ELSE 1), run_end, start_pos, end_pos)

format_text_range(d, paragraph_index, start_pos, end_pos) ==
    IF paragraph_index < 0 \/ paragraph_index >= Len(Paragraphs(d))
    THEN Raise(d, "ValueError")
    ELSE IF start_pos < 0 \/ end_pos < 0 \/ end_pos < start_pos
    THEN Raise(d, "ValueError")
    ELSE IF start_pos = end_pos
    THEN Ok(d, None)
    ELSE Ok([d EXCEPT ![SectionOf(d, paragraph_index)]
                       [PositionInSection(d, paragraph_index) + 1].runs =
                          FormatLoop(@, 0, 0, start_pos, end_pos)], None)

\* the text of the formatted paragraphs
FormatText == <<"a", "b", "c">>

\* the ranges offered: positions below zero, inside and past the text
FormatRanges == ((-1)..Len(FormatText)) \X ((-1)..(Len(FormatText) + 1))

FormatTextRange ==
    \E <<start_pos, end_pos>> \in FormatRanges :
    \E paragraph_index \in IF <<start_pos, end_pos>> = <<0, 1>>
                           THEN (-1)..Count(file) ELSE 0..(Count(file) - 1) :
        \E outcome \in {format_text_range(file, paragraph_index, start_pos, end_pos)} :
           Tool([op |-> "format_text", paragraph_index |-> paragraph_index,
                 start_pos |-> start_pos, end_pos |-> end_pos], outcome, TRUE)

\* a paragraph of every fragmentation of the text into up to MaxRuns runs,
\* alone or after a one-run paragraph
InitFormatDocs ==
    {<< <<ParagraphOfRuns(rs)>> >> : rs \in Fragmentations(FormatText)}
    \cup {<< <<NewParagraph(<<"a">>, None, FALSE)>>, <<ParagraphOfRuns(rs)>> >> :
             rs \in {Fragment(FormatText, <<1>>)}}

InitFormat ==
    /\ file \in InitFormatDocs
    /\ doc = file
    /\ prev = file
    /\ call = [op |-> "none"]
    /\ runs = <<>>
    /\ rcall = NoRunCall
    /\ dist = NoDist
    /\ disk = NoDisk

NextFormat == FormatTextRange

SpecFormat == InitFormat /\ [][NextFormat]_vars

\* C29: a format_text call that returned leaves every paragraph with the
\* text it had: the run texts of each paragraph, concatenated in order, are
\* the same string before and after, and no paragraph is added or removed.
FormatPreservesText ==
    (call.op = "format_text" /\ call.err = "none") =>
        /\ Count(file) = Count(prev)
        /\ \A i \in 1..Count(prev) :
              ParaText(Paragraphs(file)[i]) = ParaText(Paragraphs(prev)[i])

\* C29 witness: a range that begins inside a run and ends past the end of
\* the paragraph has cut that run in two.
FormatPreservesTextWitness ==
    /\ call.op = "format_text"
    /\ call.err = "none"
    /\ call.start_pos > 0
    /\ call.end_pos > Len(ParaText(Paragraphs(prev)[call.paragraph_index + 1]))
    /\ Len(Paragraphs(file)[call.paragraph_index + 1].runs)
          = Len(Paragraphs(prev)[call.paragraph_index + 1].runs) + 1

---------------------------------------------------------------------------
\* Empty runs under replace.

\* C30: in every replace_in_runs call, span arithmetic gives 0 to every run
\* that is empty when the cross-run phase begins, so that run is empty after
\* the phase; and a run that was empty before the call is empty after it.
EmptyRunsStayEmpty ==
    rcall.op = "replace" =>
        /\ Len(runs) = Len(rcall.before)
        /\ \A i \in 1..Len(rcall.before) : rcall.before[i] = <<>> => runs[i] = <<>>
        /\ rcall.rewrote =>
              \A shares \in {distribute_lengths(Len(rcall.new_merged), Lengths(AfterWithin))} :
                 \A i \in 1..Len(AfterWithin) :
                    AfterWithin[i] = <<>> => (shares[i] = 0 /\ runs[i] = <<>>)

\* C30 witness: a match straddling an empty run is replaced by a longer
\* text; the text is cut around the empty run, which stays empty.
EmptyRunsStayEmptyWitness ==
    /\ rcall.op = "replace"
    /\ rcall.rewrote
    /\ rcall.before = << <<"a">>, <<>>, <<"a", "b">> >>
    /\ rcall.find = <<"a", "a">>
    /\ rcall.replace = <<"c", "c">>
    /\ runs = << <<"c">>, <<>>, <<"c", "b">> >>

\* the span arithmetic part of C30 over all bounded totals and weights
ZeroWeightGetsZero ==
    (dist.done /\ SumSeq(dist.weights) > 0) =>
        \A i \in 1..Len(dist.weights) : dist.weights[i] = 0 => dist.shares[i] = 0

====
